---- MODULE Spec2Model ----
(***************************************************************************)
(* Concurrent dispatch core of FumoFinder (internal/identifier):           *)
(* IdentifyEpisodes loads the frame channel, starts one processFrames      *)
(* goroutine per entry of httpClients, joins them and closes the channel.  *)
(* Every critical section of mu is an acquire step followed by a step      *)
(* that runs the body and releases; an HTTP exchange is one step.          *)
(***************************************************************************)
EXTENDS Integers, Sequences, FiniteSets, TLC

\* ---------------------------------------------------------------- bounds
\* Largest number of proxies handed to NewEpisodeIdentifier.
MaxProxies == 2
\* Largest number of frames handed to IdentifyEpisodes on proxy paths.
MaxFrames == 4
\* Largest number of frames handed to IdentifyEpisodes on the direct path.
MaxDirectFrames == 3
\* Largest time in seconds: a frame's timestamp, a candidate's from and to.
MaxTime == 3
\* Largest magnitude of the threshold flag, in seconds.
MaxThreshold == 1
\* Largest episode number the service reports as a JSON number.
MaxEpisode == 10
\* Longest episode text the service reports as a JSON string.
MaxRawLen == 2
\* Longest series title handed to constructNewFileName.
MaxTitleLen == 2
\* Most videos RenameFiles has results for.
MaxVideos == 2

\* ------------------------------------------------------ program constants
\* handleProxyFailure: failCounts[proxyURL] >= 3 retires the path.
RetireThreshold == 3
\* processFrames: for retry := 1; retry <= 3; retry++ on the direct path.
MaxRetries == 3

\* "No Proxy (Direct Connection)", the key of the direct path.
Direct == 0
\* The proxy URL strings, numbered.
ProxyURLs == 1..MaxProxies
URLs == {Direct} \cup ProxyURLs
\* A sync.Mutex nobody holds (its zero value).
Unlocked == 0
\* A worker that holds no frame.
NoFrame == 0

\* Similarity reported by the service: 0 or a positive value.
Similarities == {0, 1}

\* What one call of IdentifyEpisode can meet after its retired check:
\*   io      os.Open / ReadFrom fails, nothing is sent
\*   net     client.Do fails or the body does not decode
\*   nomatch the response decodes and no candidate is accepted
\*   match   a candidate is accepted, with its similarity
Outcomes ==
  {[kind |-> "io", sim |-> 0], [kind |-> "net", sim |-> 0],
   [kind |-> "nomatch", sim |-> 0]}
  \cup {[kind |-> "match", sim |-> s] : s \in Similarities}

\* The proxy lists NewEpisodeIdentifier can be given, up to the order of the
\* list and the names of the URLs: client i gets URL u[i]; entries may carry
\* the same URL (the proxy file is not deduplicated). URLs are numbered in
\* order of first use, the more used first.
Uses(u, k) == Cardinality({i \in DOMAIN u : u[i] = k})
ProxyLists ==
  UNION {{u \in [1..n -> ProxyURLs] :
            /\ u[1] = 1
            /\ \A i \in 1..(n-1) : u[i] <= u[i+1] /\ u[i+1] <= u[i] + 1
            /\ \A k \in 1..(MaxProxies-1) : Uses(u, k) >= Uses(u, k+1)}
         : n \in 1..MaxProxies}

\* The longest frame list explored with n proxy clients: MaxFrames in the
\* audited run, one frame fewer for each client after the first otherwise.
FrameBudget(a, n) == IF a THEN MaxFrames ELSE MaxFrames + 1 - n

VARIABLES
  audit,          \* the history variables below are being recorded
  proxyOf,        \* httpClients as built: client -> proxy URL string
  nFrames,        \* len(frames): the capacity of frameChan
  service,        \* per URL, the outcomes the remote side can produce
  mainErr,        \* main: the err of the supplier call being handled
  dpc,            \* position of main and of IdentifyEpisodes
  unvisited,      \* clients the range over httpClients has not produced yet
  frames,         \* frameChan: the buffered frames, head first
  framesClosed,   \* frameChan has been closed
  closeCount,     \* number of close(frames) executed
  done,           \* ei.done has been closed
  channelClosed,  \* ei.channelClosed
  httpClients,    \* keys still in ei.httpClients
  frameCounts,    \* ei.frameCounts
  failCounts,     \* ei.failCounts
  brokenProxies,  \* ei.brokenProxies
  Matches,        \* ei.Matches
  mu,             \* holder of ei.mu
  sendMutex,      \* holder of ei.sendMutex
  clientLocks,    \* clientLocks[c] is held
  wg,             \* ei.wg counter
  pc,             \* position of each processFrames goroutine
  frame,          \* the frame a worker holds
  err,            \* err of the last IdentifyEpisode call: "nil","io","net","broken"
  similarity,     \* similarity of the last IdentifyEpisode call
  retry,          \* 0 in the first call, then the loop variable retry
  calls,          \* history: IdentifyEpisode calls made for the held frame
  evals,          \* history: per frame, calls that returned a verdict (err = nil)
  lastLiveFail,   \* history: frames whose call failed on the last live proxy path
  requeue,        \* history: per frame "none", "requeued", "reattempted"
  aniListID,      \* ei.aniListID, 0 when no title filter is set
  threshold,      \* threshold, in seconds
  timestampSec,   \* timestampSec of the frame under evaluation
  result,         \* result.Result: the candidates in response order
  idx,            \* position of the range over result.Result
  reasons,        \* reasons, one entry for each rejected candidate
  foundPotentialMatch,  \* foundPotentialMatch
  matchInfo,      \* the MatchInfo appended by the evaluation, if any
  epc,            \* position of the candidate loop of IdentifyEpisode
  episodes,       \* the "episode" JSON values of the accepted candidates
  matches,        \* MatchInfo.Episode of the matches handed to the renamer
  episodeStr,     \* episodeStr := match.Episode.String()
  counted,        \* matches the counting loop has gone through
  episodeCount,   \* episodeCount: episode text -> occurrences
  pending,        \* keys the range over episodeCount has not produced yet
  majorityEpisode,  \* majorityEpisode
  maxEpisodeCount,  \* maxEpisodeCount
  mpc,            \* position in decoding / findMajorityTitleAndEpisode
  titles,         \* the three titles of each match handed to the renamer
  titleCount,     \* titleCount: title text -> occurrences
  pendingTitles,  \* keys the range over titleCount has not produced yet
  majorityTitle,  \* majorityTitle
  maxTitleCount,  \* maxTitleCount
  confidence,     \* confidence, as the fraction num / den
  seconds,        \* formatTimestamp: the capture time, in hundredths of a second
  outputFrame,    \* ExtractFrames: the base name of outputFrame
  extracted,      \* the value extractTimestampInSeconds returns
  tpc,            \* position in naming a frame and reading its name back
  originalPath,   \* constructNewFileName: originalPath
  seriesTitle,    \* constructNewFileName: seriesTitle
  episodeText,    \* constructNewFileName: episode
  newFileName,    \* the path constructNewFileName returns
  fpc,            \* position of the call of constructNewFileName
  results,        \* fr.results: the videos that have matches
  verdicts,       \* videos whose majority title and episode are both non-empty
  onDisk,         \* videos whose file exists in the input folder at the call
  newName,        \* per video with a verdict, the name constructNewFileName gives
  folder,         \* the input folder: name -> the video stored under it, 0 none
  bulkPreview,    \* bulkPreview: the videos in the bulk preview
  todo,           \* videos the range of the individual loop has not produced yet
  mkvFile,        \* the video renameSingleFile is handling, 0 for none
  renamed,        \* videos renamed by os.Rename
  byBulk,         \* history: videos renamed by the bulk step
  offered,        \* history: videos for which confirmRename has prompted
  covered,        \* history: videos covered by a 'y' answer
  cancelled,      \* history: the bulk preview was answered other than 'y'
  rpc,            \* position of RenameFiles
  proxyFile,      \* per line of the proxy file, what checking its proxy gives
  unchecked,      \* lines whose checkProxyConcurrently has not run yet
  proxyList,      \* pl.proxyList
  valid,          \* valid: the URLs received from the results channel
  proxies,        \* main: proxies, the list GetProxyList returned
  lpc             \* position of main in the proxy block

vars == <<audit, proxyOf, nFrames, service, mainErr, dpc, unvisited, frames, framesClosed,
          closeCount, done, channelClosed, httpClients, frameCounts,
          failCounts, brokenProxies, Matches, mu, sendMutex, clientLocks, wg,
          pc, frame, err, similarity, retry, calls, evals, lastLiveFail,
          requeue, aniListID, threshold, timestampSec, result, idx, reasons,
          foundPotentialMatch, matchInfo, epc, episodes, matches, episodeStr,
          counted, episodeCount, pending, majorityEpisode, maxEpisodeCount,
          mpc, titles, titleCount, pendingTitles, majorityTitle,
          maxTitleCount, confidence, seconds, outputFrame, extracted, tpc,
          originalPath, seriesTitle, episodeText, newFileName, fpc, results,
          verdicts, onDisk, newName, folder, bulkPreview, todo, mkvFile, renamed, byBulk,
          offered, covered, cancelled, rpc, proxyFile, unchecked, proxyList,
          valid, proxies, lpc>>

titleVars == <<titles, titleCount, pendingTitles, majorityTitle,
               maxTitleCount, confidence>>
episodeVars == <<episodes, matches, episodeStr, counted, episodeCount,
                 pending, majorityEpisode, maxEpisodeCount, mpc, titleVars>>
evalVars == <<aniListID, threshold, timestampSec, result, idx, reasons,
              foundPotentialMatch, matchInfo, epc>>
timestampVars == <<seconds, outputFrame, extracted, tpc>>
fileNameVars == <<originalPath, seriesTitle, episodeText, newFileName, fpc>>
renameVars == <<results, verdicts, onDisk, newName, folder, bulkPreview, todo, mkvFile,
                renamed, byBulk, offered, covered, cancelled, rpc>>
loaderVars == <<proxyFile, unchecked, proxyList, valid, proxies, lpc>>
toolVars == <<timestampVars, fileNameVars, renameVars, loaderVars>>
setup == <<audit, proxyOf, nFrames, service, evalVars, episodeVars, toolVars>>
config == <<setup, mainErr>>
chanVars == <<framesClosed, closeCount, done, channelClosed>>
regVars == <<httpClients, failCounts, brokenProxies>>
aggVars == <<frameCounts, Matches>>
lockVars == <<mu, sendMutex, clientLocks>>
localVars == <<frame, err, similarity, retry>>
history == <<calls, evals, lastLiveFail, requeue>>

\* The *http.Client pointers, numbered 1..len(proxies) (1 for the direct one).
Clients == DOMAIN proxyOf
Paths == {proxyOf[c] : c \in Clients}
Frames == 1..nFrames

\* The remote side is unconstrained.
AnyService == [u \in URLs |-> Outcomes]
\* Proxy 1 fails every call, proxy 2 accepts a candidate for every frame.
FailingAndWorking ==
  [u \in URLs |-> IF u = 1 THEN {[kind |-> "net", sim |-> 0]}
                  ELSE {[kind |-> "match", sim |-> 1]}]

\* No candidate loop is running.
EvalIdle ==
  /\ aniListID = 0
  /\ threshold = 0
  /\ timestampSec = 0
  /\ result = <<>>
  /\ idx = 0
  /\ reasons = <<>>
  /\ foundPotentialMatch = FALSE
  /\ matchInfo = <<>>
  /\ epc = "idle"

\* No episode is being decoded and no majority is being taken.
EpisodeIdle ==
  /\ episodes = <<>>
  /\ matches = <<>>
  /\ episodeStr = <<>>
  /\ counted = 0
  /\ episodeCount = <<>>
  /\ pending = {}
  /\ majorityEpisode = <<>>
  /\ maxEpisodeCount = 0
  /\ mpc = "idle"
  /\ titles = <<>>
  /\ titleCount = <<>>
  /\ pendingTitles = {}
  /\ majorityTitle = <<>>
  /\ maxTitleCount = 0
  /\ confidence = [num |-> 0, den |-> 1]

\* No frame is being named and no frame name is being read back.
TimestampIdle ==
  /\ seconds = 0
  /\ outputFrame = <<>>
  /\ extracted = 0
  /\ tpc = "idle"

\* constructNewFileName is not being called.
FileNameIdle ==
  /\ originalPath = <<>>
  /\ seriesTitle = <<>>
  /\ episodeText = <<>>
  /\ newFileName = <<>>
  /\ fpc = "idle"

\* RenameFiles is not running.
RenameIdle ==
  /\ results = {}
  /\ verdicts = {}
  /\ onDisk = {}
  /\ newName = <<>>
  /\ folder = <<>>
  /\ bulkPreview = {}
  /\ todo = {}
  /\ mkvFile = 0
  /\ renamed = {}
  /\ byBulk = {}
  /\ offered = {}
  /\ covered = {}
  /\ cancelled = FALSE
  /\ rpc = "idle"

\* No proxy file is being loaded.
LoaderIdle ==
  /\ proxyFile = <<>>
  /\ unchecked = {}
  /\ proxyList = <<>>
  /\ valid = 0
  /\ proxies = <<>>
  /\ lpc = "idle"

\* Frame naming, file naming, renaming and proxy loading are all at rest.
ToolsIdle == TimestampIdle /\ FileNameIdle /\ RenameIdle /\ LoaderIdle

\* The EpisodeIdentifier as NewEpisodeIdentifier leaves it for the clients
\* proxyOf, and IdentifyEpisodes about to run on nFrames frames.
Fresh ==
  /\ mainErr = "nil"
  /\ unvisited = {}
  /\ frames = <<>>
  /\ framesClosed = FALSE
  /\ closeCount = 0
  /\ done = FALSE
  /\ channelClosed = FALSE
  /\ httpClients = DOMAIN proxyOf
  /\ frameCounts = [u \in {proxyOf[c] : c \in DOMAIN proxyOf} |-> 0]
  /\ failCounts = [u \in {proxyOf[c] : c \in DOMAIN proxyOf} |-> 0]
  /\ brokenProxies = [u \in {proxyOf[c] : c \in DOMAIN proxyOf} |-> FALSE]
  /\ Matches = <<>>
  /\ mu = Unlocked
  /\ sendMutex = Unlocked
  /\ clientLocks = [c \in DOMAIN proxyOf |-> FALSE]
  /\ wg = 0
  /\ pc = [c \in DOMAIN proxyOf |-> "idle"]
  /\ frame = [c \in DOMAIN proxyOf |-> NoFrame]
  /\ err = [c \in DOMAIN proxyOf |-> "nil"]
  /\ similarity = [c \in DOMAIN proxyOf |-> 0]
  /\ retry = [c \in DOMAIN proxyOf |-> 0]
  /\ calls = [c \in DOMAIN proxyOf |-> 0]
  /\ evals = [f \in 1..nFrames |-> 0]
  /\ lastLiveFail = {}
  /\ requeue = [f \in 1..nFrames |-> "none"]

\* The run of main up to its return from IdentifyEpisodes: proxyOf are the
\* clients NewEpisodeIdentifier builds from what the proxy loader delivers
\* and nFrames is the number of frames the extractor delivers, none when it
\* fails. A caller of the package other than main can pass no frames.
Start ==
  /\ \/ /\ proxyOf = (1 :> Direct)
        /\ nFrames \in 0..MaxDirectFrames
     \/ /\ proxyOf \in ProxyLists
        /\ nFrames \in 0..FrameBudget(audit, Cardinality(DOMAIN proxyOf))
  /\ \/ service = AnyService
     \/ /\ service = FailingAndWorking
        /\ DOMAIN proxyOf = 1..2 /\ proxyOf[1] = 1 /\ proxyOf[2] = 2
  /\ \/ dpc = "extract"
     \/ dpc = "load" /\ nFrames = 0
  /\ Fresh
  /\ EvalIdle
  /\ EpisodeIdle
  /\ ToolsIdle

\* A fresh EpisodeIdentifier on the direct path with nothing to dispatch.
DispatchIdle ==
  /\ audit = FALSE
  /\ proxyOf = (1 :> Direct)
  /\ nFrames = 0
  /\ service = AnyService
  /\ dpc = "idle"
  /\ Fresh

Init == audit = FALSE /\ Start
InitAudit == audit = TRUE /\ Start

\* History updates, made only when audit is set.
Evaluated(f) == IF audit THEN [evals EXCEPT ![f] = @ + 1] ELSE evals
Marked(f, from, to) ==
  IF audit /\ requeue[f] \in from THEN [requeue EXCEPT ![f] = to] ELSE requeue

\* The process has not died of a runtime fatal error.
Alive == dpc # "fatal"

\* ------------------------------------------------------------------- main
\* frames, err := frameExtractor.ExtractFrames(cfg.InputFolder): an error
\* (no ffmpeg, no folder, no video, no frame extracted) or at least one
\* frame.
ExtractFrames ==
  /\ dpc = "extract"
  /\ mainErr' = IF nFrames = 0 THEN "extract" ELSE "nil"
  /\ dpc' = "extracted"
  /\ UNCHANGED <<setup, unvisited, frames, chanVars, regVars, aggVars,
                 lockVars, wg, pc, localVars, history>>

\* Faulty variant of Aborts: main goes on after a failed extraction.
AbortsNever(e) == FALSE

\* if err != nil { log.Fatalf(...) }.
Aborts(e) == e # "nil"

\* The error check after ExtractFrames: log.Fatalf ends the process.
CheckExtract ==
  /\ dpc = "extracted"
  /\ dpc' = IF Aborts(mainErr) THEN "aborted" ELSE "proxies"
  /\ UNCHANGED <<config, unvisited, frames, chanVars, regVars, aggVars,
                 lockVars, wg, pc, localVars, history>>

\* The proxy block: with no proxy file, or a file with no working proxy,
\* proxies stays empty; proxyLoader.LoadProxies can fail, and then proxies
\* stays empty too; otherwise proxies is the loaded list.
LoadProxies ==
  /\ dpc = "proxies"
  /\ \/ mainErr' = "nil"
     \/ proxyOf = (1 :> Direct) /\ mainErr' = "load"
  /\ dpc' = "loaded"
  /\ UNCHANGED <<setup, unvisited, frames, chanVars, regVars, aggVars,
                 lockVars, wg, pc, localVars, history>>

\* The rest of the proxy block (a load error is logged with log.Printf and
\* err goes out of scope), NewEpisodeIdentifier, and the call of
\* IdentifyEpisodes.
NewEpisodeIdentifier ==
  /\ dpc = "loaded"
  /\ mainErr' = "nil"
  /\ dpc' = "load"
  /\ UNCHANGED <<setup, unvisited, frames, chanVars, regVars, aggVars,
                 lockVars, wg, pc, localVars, history>>

\* ------------------------------------------------------- IdentifyEpisodes
\* frameChan := make(chan string, len(frames)); every frame is sent to it.
LoadFrames ==
  /\ dpc = "load"
  /\ frames' = [i \in 1..nFrames |-> i]
  /\ unvisited' = httpClients
  /\ dpc' = "launch"
  /\ UNCHANGED <<config, chanVars, regVars, aggVars, lockVars, wg, pc,
                 localVars, history>>

\* One iteration of "for client, proxyURL := range ei.httpClients": wg.Add(1)
\* and go processFrames. The range reads the map without mu; an entry that a
\* running worker deleted before it was reached may or may not be produced.
Launch(c) ==
  /\ dpc = "launch"
  /\ c \in unvisited
  /\ unvisited' = unvisited \ {c}
  /\ \/ /\ wg' = wg + 1
        /\ pc' = [pc EXCEPT ![c] = "select"]
     \/ /\ c \notin httpClients
        /\ UNCHANGED <<wg, pc>>
  /\ UNCHANGED <<config, dpc, frames, chanVars, regVars, aggVars, lockVars,
                 localVars, history>>

\* The range over httpClients is exhausted and the loop is left.
LaunchEnd ==
  /\ dpc = "launch"
  /\ unvisited = {}
  /\ dpc' = "wait"
  /\ UNCHANGED <<config, unvisited, frames, chanVars, regVars, aggVars,
                 lockVars, wg, pc, localVars, history>>

\* Faulty variant of Wait: the dispatcher goes on without joining the workers.
WaitNoJoin ==
  /\ dpc = "wait"
  /\ dpc' = "closeDone"
  /\ UNCHANGED <<config, unvisited, frames, chanVars, regVars, aggVars,
                 lockVars, wg, pc, localVars, history>>

\* ei.wg.Wait() returns when the counter is 0.
Wait ==
  /\ dpc = "wait"
  /\ wg = 0
  /\ dpc' = "closeDone"
  /\ UNCHANGED <<config, unvisited, frames, chanVars, regVars, aggVars,
                 lockVars, wg, pc, localVars, history>>

\* CloseFramesChannel: close(ei.done); ei.channelClosed.Store(true).
CloseDone ==
  /\ dpc = "closeDone"
  /\ done' = TRUE
  /\ channelClosed' = TRUE
  /\ dpc' = "closeFrames"
  /\ UNCHANGED <<config, unvisited, frames, framesClosed, closeCount,
                 regVars, aggVars, lockVars, wg, pc, localVars, history>>

\* CloseFramesChannel: sendMutex.Lock(); close(frames); Unlock; then the
\* summary is printed and completionChan closed: IdentifyEpisodes returns.
CloseFramesChannel ==
  /\ dpc = "closeFrames"
  /\ sendMutex = Unlocked
  /\ framesClosed' = TRUE
  /\ closeCount' = closeCount + 1
  /\ dpc' = "returned"
  /\ UNCHANGED <<config, unvisited, frames, done, channelClosed, regVars,
                 aggVars, lockVars, wg, pc, localVars, history>>

\* ---------------------------------------------------------- processFrames
\* return from processFrames: the deferred ei.wg.Done().
Exited(c) ==
  /\ pc' = [pc EXCEPT ![c] = "exited"]
  /\ wg' = wg - 1
  /\ frame' = [frame EXCEPT ![c] = NoFrame]

\* Faulty variant of Receive: the frame is handed out and stays in the queue.
ReceiveKeeps(c) ==
  /\ Alive
  /\ pc[c] = "select"
  /\ frames # <<>>
  /\ frame' = [frame EXCEPT ![c] = Head(frames)]
  /\ retry' = [retry EXCEPT ![c] = 0]
  /\ calls' = [calls EXCEPT ![c] = 0]
  /\ pc' = [pc EXCEPT ![c] = "checkBroken"]
  /\ UNCHANGED <<config, dpc, unvisited, frames, chanVars, regVars, aggVars,
                 lockVars, wg, err, similarity, evals, lastLiveFail, requeue>>

\* case frame, ok := <-frames, with ok: the head of the buffer is received.
Receive(c) ==
  /\ Alive
  /\ pc[c] = "select"
  /\ frames # <<>>
  /\ frame' = [frame EXCEPT ![c] = Head(frames)]
  /\ frames' = Tail(frames)
  /\ retry' = [retry EXCEPT ![c] = 0]
  /\ calls' = [calls EXCEPT ![c] = 0]
  /\ pc' = [pc EXCEPT ![c] = "checkBroken"]
  /\ UNCHANGED <<config, dpc, unvisited, chanVars, regVars, aggVars,
                 lockVars, wg, err, similarity, evals, lastLiveFail, requeue>>

\* case <-ticker.C with frames still buffered: the loop goes round.
TickerBusy(c) ==
  /\ Alive
  /\ pc[c] = "select"
  /\ Len(frames) # 0
  /\ UNCHANGED vars

\* The three ways out of the select: the ticker with len(frames) == 0, the
\* receive on the closed and empty channel (!ok), and <-ei.done.
SelectExit(c) ==
  /\ Alive
  /\ pc[c] = "select"
  /\ \/ Len(frames) = 0
     \/ framesClosed /\ frames = <<>>
     \/ done
  /\ Exited(c)
  /\ UNCHANGED <<config, dpc, unvisited, frames, chanVars, regVars, aggVars,
                 lockVars, err, similarity, retry, history>>

\* ei.mu.Lock() before the broken check that follows a receive.
CheckBrokenLock(c) ==
  /\ Alive
  /\ pc[c] = "checkBroken"
  /\ mu = Unlocked
  /\ mu' = c
  /\ pc' = [pc EXCEPT ![c] = "checkBrokenLocked"]
  /\ UNCHANGED <<config, dpc, unvisited, frames, chanVars, regVars, aggVars,
                 sendMutex, clientLocks, wg, localVars, history>>

\* if ei.brokenProxies[proxyURL] { Unlock; return }; Unlock. The received
\* frame is given up when the worker returns.
CheckBroken(c) ==
  /\ Alive
  /\ pc[c] = "checkBrokenLocked"
  /\ mu' = Unlocked
  /\ IF brokenProxies[proxyOf[c]]
       THEN /\ Exited(c)
       ELSE /\ pc' = [pc EXCEPT ![c] = "call"]
            /\ UNCHANGED <<wg, frame>>
  /\ UNCHANGED <<config, dpc, unvisited, frames, chanVars, regVars, aggVars,
                 sendMutex, clientLocks, err, similarity, retry, history>>

\* ei.clientLocks[client].Lock(), then IdentifyEpisode is entered and takes
\* ei.mu for its own broken check.
CallBegin(c) ==
  /\ Alive
  /\ pc[c] = "call"
  /\ mu = Unlocked
  /\ clientLocks' = [clientLocks EXCEPT ![c] = TRUE]
  /\ mu' = c
  /\ calls' = [calls EXCEPT ![c] = @ + 1]
  /\ pc' = [pc EXCEPT ![c] = "retiredCheck"]
  /\ UNCHANGED <<config, dpc, unvisited, frames, chanVars, regVars, aggVars,
                 sendMutex, wg, localVars, evals, lastLiveFail, requeue>>

\* Faulty variant of RetiredCheck: mu is not released before the frame is
\* read and sent.
RetiredCheckKeepsMu(c) ==
  /\ Alive
  /\ pc[c] = "retiredCheck"
  /\ ~brokenProxies[proxyOf[c]]
  /\ pc' = [pc EXCEPT ![c] = "request"]
  /\ UNCHANGED <<config, dpc, unvisited, frames, chanVars, regVars, aggVars,
                 lockVars, wg, localVars, history>>

\* IdentifyEpisode: if ei.brokenProxies[proxyURL] the call returns an error
\* without touching the network (and the client lock is released by the
\* caller); otherwise it goes on to read and send the frame.
RetiredCheck(c) ==
  /\ Alive
  /\ pc[c] = "retiredCheck"
  /\ mu' = Unlocked
  /\ IF brokenProxies[proxyOf[c]]
       THEN /\ err' = [err EXCEPT ![c] = "broken"]
            /\ similarity' = [similarity EXCEPT ![c] = 0]
            /\ clientLocks' = [clientLocks EXCEPT ![c] = FALSE]
            /\ pc' = [pc EXCEPT ![c] = "ret"]
            /\ UNCHANGED requeue
       ELSE /\ requeue' = Marked(frame[c], {"requeued"}, "reattempted")
            /\ pc' = [pc EXCEPT ![c] = "request"]
            /\ UNCHANGED <<err, similarity, clientLocks>>
  /\ UNCHANGED <<config, dpc, unvisited, frames, chanVars, regVars, aggVars,
                 sendMutex, wg, frame, retry, calls, evals, lastLiveFail>>

\* IdentifyEpisode: os.Open or ReadFrom fails; nothing is sent.
ReadFails(c) ==
  /\ Alive
  /\ pc[c] = "request"
  /\ [kind |-> "io", sim |-> 0] \in service[proxyOf[c]]
  /\ err' = [err EXCEPT ![c] = "io"]
  /\ similarity' = [similarity EXCEPT ![c] = 0]
  /\ clientLocks' = [clientLocks EXCEPT ![c] = FALSE]
  /\ pc' = [pc EXCEPT ![c] = "ret"]
  /\ UNCHANGED <<config, dpc, unvisited, frames, chanVars, regVars, aggVars,
                 mu, sendMutex, wg, frame, retry, history>>

\* IdentifyEpisode: client.Do(req) sends the frame on the path of c and the
\* exchange ends with outcome o: a transport or decoding error, a response
\* in which no candidate is accepted, or an accepted candidate, which is
\* then appended to Matches under mu.
SendRequest(c, o) ==
  /\ Alive
  /\ pc[c] = "request"
  /\ o \in service[proxyOf[c]]
  /\ o.kind # "io"
  /\ CASE o.kind = "net" ->
            /\ err' = [err EXCEPT ![c] = "net"]
            /\ similarity' = [similarity EXCEPT ![c] = 0]
            /\ clientLocks' = [clientLocks EXCEPT ![c] = FALSE]
            /\ pc' = [pc EXCEPT ![c] = "ret"]
            /\ UNCHANGED evals
       [] o.kind = "nomatch" ->
            /\ err' = [err EXCEPT ![c] = "nil"]
            /\ similarity' = [similarity EXCEPT ![c] = 0]
            /\ clientLocks' = [clientLocks EXCEPT ![c] = FALSE]
            /\ evals' = Evaluated(frame[c])
            /\ pc' = [pc EXCEPT ![c] = "ret"]
       [] o.kind = "match" ->
            /\ similarity' = [similarity EXCEPT ![c] = o.sim]
            /\ pc' = [pc EXCEPT ![c] = "appendLock"]
            /\ UNCHANGED <<err, clientLocks, evals>>
  /\ UNCHANGED <<config, dpc, unvisited, frames, chanVars, regVars, aggVars,
                 mu, sendMutex, wg, frame, retry, calls, lastLiveFail,
                 requeue>>

\* IdentifyEpisode: ei.mu.Lock() before the append to ei.Matches.
AppendLock(c) ==
  /\ Alive
  /\ pc[c] = "appendLock"
  /\ mu = Unlocked
  /\ mu' = c
  /\ pc' = [pc EXCEPT ![c] = "append"]
  /\ UNCHANGED <<config, dpc, unvisited, frames, chanVars, regVars, aggVars,
                 sendMutex, clientLocks, wg, localVars, history>>

\* ei.Matches = append(ei.Matches, matchInfo); Unlock; the call returns
\* (info, match.Similarity, nil) and the caller releases the client lock.
AppendMatch(c) ==
  /\ Alive
  /\ pc[c] = "append"
  /\ Matches' = Append(Matches, [frame |-> frame[c], ProxyUsed |-> proxyOf[c]])
  /\ mu' = Unlocked
  /\ err' = [err EXCEPT ![c] = "nil"]
  /\ evals' = Evaluated(frame[c])
  /\ clientLocks' = [clientLocks EXCEPT ![c] = FALSE]
  /\ pc' = [pc EXCEPT ![c] = "ret"]
  /\ UNCHANGED <<config, dpc, unvisited, frames, chanVars, regVars,
                 frameCounts, sendMutex, wg, frame, similarity, retry, calls,
                 lastLiveFail, requeue>>

\* Faulty variant of IsProxyPath: the direct path is handled like a proxy.
AnyPath(c) == c \in Clients

\* proxyURL != "No Proxy (Direct Connection)".
IsProxyPath(c) == proxyOf[c] # Direct

\* Faulty variant of FailedOnProxy: handleProxyFailure is called with the
\* client's lock still held.
FailedOnProxyLocked(c) ==
  /\ Alive
  /\ pc[c] = "ret"
  /\ retry[c] = 0
  /\ err[c] # "nil"
  /\ IsProxyPath(c)
  /\ clientLocks' = [clientLocks EXCEPT ![c] = TRUE]
  /\ pc' = [pc EXCEPT ![c] = "failLock"]
  /\ UNCHANGED <<config, dpc, unvisited, frames, chanVars, regVars, aggVars,
                 mu, sendMutex, wg, localVars, history>>

\* The first call returned an error on a proxy path: handleProxyFailure.
FailedOnProxy(c) ==
  /\ Alive
  /\ pc[c] = "ret"
  /\ retry[c] = 0
  /\ err[c] # "nil"
  /\ IsProxyPath(c)
  /\ pc' = [pc EXCEPT ![c] = "failLock"]
  /\ UNCHANGED <<config, dpc, unvisited, frames, chanVars, regVars, aggVars,
                 lockVars, wg, localVars, history>>

\* Faulty variant of RetryAgain: the loop condition written retry < 3.
RetryAgainOffByOne(r) == r < MaxRetries

\* The loop condition retry <= 3.
RetryAgain(r) == r <= MaxRetries

\* The direct path's retry loop. After a failed first call the loop starts
\* (retry := 1); after a retry that is not "err == nil && similarity > 0"
\* the loop goes on (retry++) while retry <= 3, and when it runs out the
\* frame is dropped ("err != nil || similarity == 0") and the worker goes
\* back to the select.
RetryDirect(c) ==
  /\ Alive
  /\ pc[c] = "ret"
  /\ ~IsProxyPath(c)
  /\ \/ retry[c] = 0 /\ err[c] # "nil"
     \/ retry[c] >= 1 /\ ~(err[c] = "nil" /\ similarity[c] > 0)
  /\ IF RetryAgain(retry[c] + 1)
       THEN /\ retry' = [retry EXCEPT ![c] = @ + 1]
            /\ pc' = [pc EXCEPT ![c] = "call"]
            /\ UNCHANGED frame
       ELSE /\ retry' = [retry EXCEPT ![c] = @ + 1]
            /\ pc' = [pc EXCEPT ![c] = "select"]
            /\ frame' = [frame EXCEPT ![c] = NoFrame]
  /\ UNCHANGED <<config, dpc, unvisited, frames, chanVars, regVars, aggVars,
                 lockVars, wg, err, similarity, history>>

\* The call (first, or a retry that broke out of the loop) returned no
\* error. similarity == 0: "No similar episode found", continue.
\* similarity > 0: go on to count the frame.
Returned(c) ==
  /\ Alive
  /\ pc[c] = "ret"
  /\ err[c] = "nil"
  /\ retry[c] = 0 \/ similarity[c] > 0
  /\ IF similarity[c] = 0
       THEN /\ pc' = [pc EXCEPT ![c] = "select"]
            /\ frame' = [frame EXCEPT ![c] = NoFrame]
       ELSE /\ pc' = [pc EXCEPT ![c] = "countLock"]
            /\ UNCHANGED frame
  /\ UNCHANGED <<config, dpc, unvisited, frames, chanVars, regVars, aggVars,
                 lockVars, wg, err, similarity, retry, history>>

\* ei.mu.Lock() before ei.frameCounts[proxyURL]++.
CountLock(c) ==
  /\ Alive
  /\ pc[c] = "countLock"
  /\ mu = Unlocked
  /\ mu' = c
  /\ pc' = [pc EXCEPT ![c] = "count"]
  /\ UNCHANGED <<config, dpc, unvisited, frames, chanVars, regVars, aggVars,
                 sendMutex, clientLocks, wg, localVars, history>>

\* ei.frameCounts[proxyURL]++; Unlock; next round of the loop.
CountFrame(c) ==
  /\ Alive
  /\ pc[c] = "count"
  /\ frameCounts' = [frameCounts EXCEPT ![proxyOf[c]] = @ + 1]
  /\ mu' = Unlocked
  /\ pc' = [pc EXCEPT ![c] = "select"]
  /\ frame' = [frame EXCEPT ![c] = NoFrame]
  /\ UNCHANGED <<config, dpc, unvisited, frames, chanVars, regVars, Matches,
                 sendMutex, clientLocks, wg, err, similarity, retry, history>>

\* ----------------------------------------------------- handleProxyFailure
\* ei.mu.Lock() at the top of handleProxyFailure.
FailLock(c) ==
  /\ Alive
  /\ pc[c] = "failLock"
  /\ mu = Unlocked
  /\ mu' = c
  /\ pc' = [pc EXCEPT ![c] = "fail"]
  /\ UNCHANGED <<config, dpc, unvisited, frames, chanVars, regVars, aggVars,
                 sendMutex, clientLocks, wg, localVars, history>>

\* Faulty variant of getClientByProxyURL: no client is ever found.
getClientNil(u) == {}

\* getClientByProxyURL: some client still in httpClients with that URL (the
\* map is ranged in no fixed order), or none (nil).
getClientByProxyURL(u) == {k \in httpClients : proxyOf[k] = u}

\* The other paths are all retired already.
LastLivePath(u) == \A v \in Paths \ {u} : brokenProxies[v]

\* Faulty variant of Retires: the path is retired one failure early.
RetiresAtTwo(n) == n >= RetireThreshold - 1

\* The retirement threshold as handleProxyFailure tests it.
Retires(n) == n >= RetireThreshold

\* ei.failCounts[proxyURL]++. Below the threshold the function returns
\* (Unlock) and the loop continues without the frame. At the threshold the
\* path is marked broken and a client with that URL is deleted from
\* httpClients; mu stays held for SafeSend. The delete is not ordered with
\* the range of IdentifyEpisodes: if that loop is still running the runtime
\* may stop the process ("concurrent map iteration and map write").
handleProxyFailure(c) ==
  /\ Alive
  /\ pc[c] = "fail"
  /\ failCounts' = [failCounts EXCEPT ![proxyOf[c]] = @ + 1]
  /\ lastLiveFail' = IF audit /\ LastLivePath(proxyOf[c])
                       THEN lastLiveFail \cup {frame[c]} ELSE lastLiveFail
  /\ IF Retires(failCounts'[proxyOf[c]])
       THEN /\ brokenProxies' = [brokenProxies EXCEPT ![proxyOf[c]] = TRUE]
            /\ IF getClientByProxyURL(proxyOf[c]) = {}
                 THEN UNCHANGED httpClients
                 ELSE \E k \in getClientByProxyURL(proxyOf[c]) :
                        httpClients' = httpClients \ {k}
            /\ \/ UNCHANGED dpc
               \/ dpc = "launch" /\ dpc' = "fatal"
            /\ pc' = [pc EXCEPT ![c] = "safeSend"]
            /\ UNCHANGED <<mu, frame>>
       ELSE /\ mu' = Unlocked
            /\ pc' = [pc EXCEPT ![c] = "select"]
            /\ frame' = [frame EXCEPT ![c] = NoFrame]
            /\ UNCHANGED <<brokenProxies, httpClients, dpc>>
  /\ UNCHANGED <<config, unvisited, frames, chanVars, aggVars, sendMutex,
                 clientLocks, wg, err, similarity, retry, calls, evals,
                 requeue>>

\* SafeSend: ei.sendMutex.Lock(), with mu held by the caller.
SafeSendLock(c) ==
  /\ Alive
  /\ pc[c] = "safeSend"
  /\ sendMutex = Unlocked
  /\ sendMutex' = c
  /\ pc' = [pc EXCEPT ![c] = "send"]
  /\ UNCHANGED <<config, dpc, unvisited, frames, chanVars, regVars, aggVars,
                 mu, clientLocks, wg, localVars, history>>

\* Faulty variant of SafeSend: the send lock is not released.
SafeSendKeepsLock(c) ==
  /\ Alive
  /\ pc[c] = "send"
  /\ frames' = IF ~channelClosed /\ Len(frames) < nFrames
                 THEN Append(frames, frame[c]) ELSE frames
  /\ mu' = Unlocked
  /\ pc' = [pc EXCEPT ![c] = "select"]
  /\ frame' = [frame EXCEPT ![c] = NoFrame]
  /\ UNCHANGED <<config, dpc, unvisited, chanVars, regVars, aggVars,
                 sendMutex, clientLocks, wg, err, similarity, retry, history>>

\* SafeSend: if !channelClosed, select { frames <- frame; <-ei.done;
\* default }: the send is taken when the buffer has room, the done case when
\* done is closed (either when both are ready), default otherwise. Then both
\* locks are released and the loop continues.
SafeSend(c) ==
  /\ Alive
  /\ pc[c] = "send"
  /\ IF ~channelClosed /\ Len(frames) < nFrames
       THEN \/ /\ frames' = Append(frames, frame[c])
               /\ requeue' = IF LastLivePath(proxyOf[c]) THEN requeue
                             ELSE Marked(frame[c], {"none", "requeued",
                                                    "reattempted"}, "requeued")
            \/ /\ done
               /\ UNCHANGED <<frames, requeue>>
       ELSE UNCHANGED <<frames, requeue>>
  /\ sendMutex' = Unlocked
  /\ mu' = Unlocked
  /\ pc' = [pc EXCEPT ![c] = "select"]
  /\ frame' = [frame EXCEPT ![c] = NoFrame]
  /\ UNCHANGED <<config, dpc, unvisited, chanVars, regVars, aggVars,
                 clientLocks, wg, err, similarity, retry, calls, evals,
                 lastLiveFail>>

Next ==
  \/ ExtractFrames
  \/ CheckExtract
  \/ LoadProxies
  \/ NewEpisodeIdentifier
  \/ LoadFrames
  \/ \E c \in Clients : Launch(c)
  \/ LaunchEnd
  \/ Wait
  \/ CloseDone
  \/ CloseFramesChannel
  \/ \E c \in Clients : Receive(c)
  \/ \E c \in Clients : TickerBusy(c)
  \/ \E c \in Clients : SelectExit(c)
  \/ \E c \in Clients : CheckBrokenLock(c)
  \/ \E c \in Clients : CheckBroken(c)
  \/ \E c \in Clients : CallBegin(c)
  \/ \E c \in Clients : RetiredCheck(c)
  \/ \E c \in Clients : ReadFails(c)
  \/ \E c \in Clients : \E o \in Outcomes : SendRequest(c, o)
  \/ \E c \in Clients : AppendLock(c)
  \/ \E c \in Clients : AppendMatch(c)
  \/ \E c \in Clients : FailedOnProxy(c)
  \/ \E c \in Clients : RetryDirect(c)
  \/ \E c \in Clients : Returned(c)
  \/ \E c \in Clients : CountLock(c)
  \/ \E c \in Clients : CountFrame(c)
  \/ \E c \in Clients : FailLock(c)
  \/ \E c \in Clients : handleProxyFailure(c)
  \/ \E c \in Clients : SafeSendLock(c)
  \/ \E c \in Clients : SafeSend(c)

\* The steps of the goroutine that runs main and IdentifyEpisodes.
DispatcherStep ==
  \/ ExtractFrames
  \/ CheckExtract
  \/ LoadProxies
  \/ NewEpisodeIdentifier
  \/ LoadFrames
  \/ \E c \in Clients : Launch(c)
  \/ LaunchEnd
  \/ Wait
  \/ CloseDone
  \/ CloseFramesChannel

\* The steps of the processFrames goroutine of client c that change the
\* state (a ticker round with frames buffered changes nothing).
WorkerStep(c) ==
  /\ c \in Clients
  /\ \/ Receive(c) \/ SelectExit(c) \/ CheckBrokenLock(c) \/ CheckBroken(c)
     \/ CallBegin(c) \/ RetiredCheck(c) \/ ReadFails(c)
     \/ \E o \in Outcomes : SendRequest(c, o)
     \/ AppendLock(c) \/ AppendMatch(c) \/ FailedOnProxy(c) \/ RetryDirect(c)
     \/ Returned(c) \/ CountLock(c) \/ CountFrame(c) \/ FailLock(c)
     \/ handleProxyFailure(c) \/ SafeSendLock(c) \/ SafeSend(c)

\* The Go scheduler runs every goroutine that can take a step; every call
\* of IdentifyEpisode returns.
Fairness ==
  /\ WF_vars(DispatcherStep)
  /\ \A c \in 1..MaxProxies : WF_vars(WorkerStep(c))

\* ------------------------------------ IdentifyEpisode: the candidate loop
\* The variables of the dispatch.
identifierVars == <<audit, proxyOf, nFrames, service, mainErr, dpc, unvisited,
                    frames, chanVars, regVars, aggVars, lockVars, wg, pc,
                    localVars, history>>
\* What the candidate loop and the majority verdict leave alone.
dispatchVars == <<identifierVars, toolVars>>

\* Times in whole seconds (float64 in the program; every value used here is
\* an integer that float64 holds exactly).
Times == 0..MaxTime
Thresholds == (0 - MaxThreshold)..MaxThreshold
\* AniList ids of the titles the service can report.
TitleIDs == {1, 2}
\* One element of result.Result.
Candidates ==
  [id : TitleIDs, from : Times, to : Times, similarity : Similarities]
\* Lengths of result.Result.
ResultLens == 0..2
Responses == UNION {[1..n -> Candidates] : n \in ResultLens}

\* A decoded response is about to be ranged over for one frame.
InitEvaluate ==
  /\ DispatchIdle
  /\ EpisodeIdle
  /\ ToolsIdle
  /\ aniListID \in {0} \cup TitleIDs
  /\ threshold \in Thresholds
  /\ timestampSec \in Times
  /\ result \in Responses
  /\ idx = 1
  /\ reasons = <<>>
  /\ foundPotentialMatch = FALSE
  /\ matchInfo = <<>>
  /\ epc = "loop"

\* Faulty variant of match: the best of the remaining candidates that pass,
\* by similarity, instead of the one the range has reached.
matchBest(i) ==
  LET ok == {j \in i..Len(result) :
               /\ aniListID = 0 \/ aniListID = result[j].id
               /\ timestampSec >= result[j].from - threshold
               /\ timestampSec <= result[j].to + threshold}
  IN IF ok = {} THEN result[i]
     ELSE result[CHOOSE j \in ok :
                   \A k \in ok : result[k].similarity <= result[j].similarity]

\* for _, match := range result.Result: the element the range has reached.
match(i) == result[i]

\* Faulty variant of TitleMismatch: the filter is applied even when it is 0.
TitleMismatchUnconditional(m) == aniListID # m.id

\* ei.aniListID != 0 && ei.aniListID != match.Anilist.ID.
TitleMismatch(m) == aniListID # 0 /\ aniListID # m.id

\* Faulty variant of TimestampAccepts: the interval after `to` is left out.
TimestampAcceptsNoTail(t, from, to, th) ==
  \/ t >= from /\ t <= to
  \/ t >= from - th /\ t < from

\* The timestamp test: within the range, within threshold before `from`,
\* or within threshold after `to`.
TimestampAccepts(t, from, to, th) ==
  \/ t >= from /\ t <= to
  \/ t >= from - th /\ t < from
  \/ t > to /\ t <= to + th

\* The MatchInfo built from an accepted candidate.
MatchInfoOf(m) ==
  [AnilistID |-> m.id, Similarity |-> m.similarity * 100,
   Timestamp |-> timestampSec, From |-> m.from, To |-> m.to]

\* One iteration of the range over result.Result: a title mismatch and a
\* timestamp mismatch each add a reason and go on to the next candidate; a
\* candidate that passes both is appended as MatchInfo and the function
\* returns.
RangeResult ==
  /\ epc = "loop"
  /\ idx <= Len(result)
  /\ IF TitleMismatch(match(idx))
       THEN /\ reasons' = Append(reasons, "title")
            /\ idx' = idx + 1
            /\ UNCHANGED <<foundPotentialMatch, matchInfo, epc>>
       ELSE IF TimestampAccepts(timestampSec, match(idx).from,
                                match(idx).to, threshold)
         THEN /\ matchInfo' = Append(matchInfo, MatchInfoOf(match(idx)))
              /\ epc' = "returned"
              /\ UNCHANGED <<idx, reasons, foundPotentialMatch>>
         ELSE /\ foundPotentialMatch' = TRUE
              /\ reasons' = Append(reasons, "time")
              /\ idx' = idx + 1
              /\ UNCHANGED <<matchInfo, epc>>
  /\ UNCHANGED <<aniListID, threshold, timestampSec, result, dispatchVars,
                 episodeVars>>

\* The range is exhausted: the reasons are logged and ("", 0, nil) returned.
ReturnNoMatch ==
  /\ epc = "loop"
  /\ idx > Len(result)
  /\ epc' = "returned"
  /\ UNCHANGED <<aniListID, threshold, timestampSec, result, idx, reasons,
                 foundPotentialMatch, matchInfo, dispatchVars, episodeVars>>

NextEvaluate ==
  \/ RangeResult
  \/ ReturnNoMatch

\* ------------------- EpisodeNumber and the majority verdict of the renamer
\* Texts are sequences of byte values: "0" is 48 ... "9" is 57, "A" is 65.
Digits == 48..57
\* The bytes a JSON string of the service is made of here: "0", "1", "9", "A".
Chars == {48, 49, 57, 65}
RawTexts == UNION {[1..n -> Chars] : n \in 0..MaxRawLen}
\* The "episode" field of a candidate: a JSON number (whole, not negative)
\* or a JSON string.
JSONValues ==
  [kind : {"number"}, num : 0..MaxEpisode, str : {<<>>}]
  \cup [kind : {"string"}, num : {0}, str : RawTexts]
\* Numbers of matches of one video.
MatchLens == 1..2
\* A few episode values for the longer lists: 2, 10 and the text "A".
FewValues ==
  {[kind |-> "number", num |-> 2, str |-> <<>>],
   [kind |-> "number", num |-> 10, str |-> <<>>],
   [kind |-> "string", num |-> 0, str |-> <<65>>]}
\* Lists in which one episode can outnumber another.
LongLists == [1..3 -> FewValues]
EpisodeLists == UNION {[1..n -> JSONValues] : n \in MatchLens} \cup LongLists
\* The three titles of a candidate, any of which the service may leave
\* empty: texts "B", "A", "C" or "".
TitleRecs ==
  {[TitleEnglish |-> <<66>>, TitleRomaji |-> <<65>>, TitleNative |-> <<67>>],
   [TitleEnglish |-> <<>>, TitleRomaji |-> <<65>>, TitleNative |-> <<67>>],
   [TitleEnglish |-> <<>>, TitleRomaji |-> <<>>, TitleNative |-> <<67>>],
   [TitleEnglish |-> <<>>, TitleRomaji |-> <<>>, TitleNative |-> <<>>]}

\* The accepted candidates of one video are about to be decoded.
InitEpisode ==
  /\ DispatchIdle
  /\ EvalIdle
  /\ ToolsIdle
  /\ episodes \in EpisodeLists
  /\ titles \in [1..Len(episodes) -> TitleRecs]
  /\ matches = <<>>
  /\ episodeStr = <<>>
  /\ counted = 0
  /\ episodeCount = <<>>
  /\ pending = {}
  /\ majorityEpisode = <<>>
  /\ maxEpisodeCount = 0
  /\ titleCount = <<>>
  /\ pendingTitles = {}
  /\ majorityTitle = <<>>
  /\ maxTitleCount = 0
  /\ confidence = [num |-> 0, den |-> 1]
  /\ mpc = "decode"


\* fmt.Sprintf("%.0f", n) for a whole n >= 0.
RECURSIVE Sprintf0f(_)
Sprintf0f(n) ==
  IF n < 10 THEN <<48 + n>> ELSE Sprintf0f(n \div 10) \o <<48 + (n % 10)>>

\* strconv.ParseFloat(str, 64) returns no error; over Chars that is a
\* non-empty run of digits.
ParseFloatOK(str) == str # <<>> /\ \A i \in DOMAIN str : str[i] \in Digits
\* The value strconv.ParseFloat returns for a run of digits.
RECURSIVE ParseFloat(_)
ParseFloat(str) ==
  IF str = <<>> THEN 0
  ELSE 10 * ParseFloat(SubSeq(str, 1, Len(str) - 1)) + (str[Len(str)] - 48)

\* EpisodeNumber.UnmarshalJSON into a zero EpisodeNumber: a JSON number is
\* kept with its %.0f text; a JSON string is parsed as a float and kept
\* likewise, or kept as Raw with Number left 0 when it does not parse.
UnmarshalJSON(data) ==
  IF data.kind = "number"
    THEN [Number |-> data.num, Raw |-> Sprintf0f(data.num)]
    ELSE IF ParseFloatOK(data.str)
      THEN [Number |-> ParseFloat(data.str),
            Raw |-> Sprintf0f(ParseFloat(data.str))]
      ELSE [Number |-> 0, Raw |-> data.str]

\* Faulty variant of String: the number is rendered whatever Raw holds.
StringOfNumber(e) == Sprintf0f(e.Number)

\* EpisodeNumber.String.
String(e) == IF e.Number # 0 THEN Sprintf0f(e.Number) ELSE e.Raw

\* a < b on Go strings: bytewise lexicographic order.
RECURSIVE StrLess(_, _)
StrLess(a, b) ==
  IF a = <<>> THEN b # <<>>
  ELSE IF b = <<>> THEN FALSE
  ELSE IF a[1] # b[1] THEN a[1] < b[1]
  ELSE StrLess(Tail(a), Tail(b))

\* The response is decoded and the accepted candidate's episode rendered
\* (episodeStr) and stored in its MatchInfo.
DecodeEpisode ==
  /\ mpc = "decode"
  /\ Len(matches) < Len(episodes)
  /\ matches' = Append(matches, UnmarshalJSON(episodes[Len(matches) + 1]))
  /\ episodeStr' = String(UnmarshalJSON(episodes[Len(matches) + 1]))
  /\ UNCHANGED <<episodes, counted, episodeCount, pending, majorityEpisode,
                 maxEpisodeCount, mpc, titleVars, dispatchVars, evalVars>>

\* renameSingleFile calls findMajorityTitleAndEpisode with the matches of
\* the video.
StartMajority ==
  /\ mpc = "decode"
  /\ Len(matches) = Len(episodes)
  /\ mpc' = "count"
  /\ UNCHANGED <<episodes, matches, episodeStr, counted, episodeCount,
                 pending, majorityEpisode, maxEpisodeCount, titleVars,
                 dispatchVars, evalVars>>

\* The title a match is counted under: TitleEnglish, or TitleRomaji when
\* that is empty, or TitleNative when both are.
TitleOf(t) ==
  IF t.TitleEnglish # <<>> THEN t.TitleEnglish
  ELSE IF t.TitleRomaji # <<>> THEN t.TitleRomaji
  ELSE t.TitleNative

\* m[k]++ on a Go map: a missing key counts from 0.
Incremented(m, k) ==
  IF k \in DOMAIN m THEN [m EXCEPT ![k] = @ + 1] ELSE m @@ (k :> 1)

\* episodeCount[match.Episode.String()]++ and titleCount[title]++ for the
\* next match; after the last one the range over episodeCount starts.
CountEpisode ==
  /\ mpc = "count"
  /\ counted < Len(matches)
  /\ counted' = counted + 1
  /\ episodeCount' = Incremented(episodeCount, String(matches[counted + 1]))
  /\ titleCount' = Incremented(titleCount, TitleOf(titles[counted + 1]))
  /\ IF counted' = Len(matches)
       THEN /\ pending' = DOMAIN episodeCount'
            /\ pendingTitles' = DOMAIN titleCount'
            /\ mpc' = "range"
       ELSE UNCHANGED <<pending, pendingTitles, mpc>>
  /\ UNCHANGED <<episodes, matches, episodeStr, majorityEpisode,
                 maxEpisodeCount, titles, majorityTitle, maxTitleCount,
                 confidence, dispatchVars, evalVars>>

\* Faulty variant of RangeEpisodeCount: on a tie the entry met first stays.
RangeEpisodeCountFirstWins(episode) ==
  /\ mpc = "range"
  /\ episode \in pending
  /\ pending' = pending \ {episode}
  /\ IF episodeCount[episode] > maxEpisodeCount
       THEN /\ majorityEpisode' = episode
            /\ maxEpisodeCount' = episodeCount[episode]
       ELSE UNCHANGED <<majorityEpisode, maxEpisodeCount>>
  /\ UNCHANGED <<episodes, matches, episodeStr, counted, episodeCount, mpc,
                 titleVars, dispatchVars, evalVars>>

\* for episode, count := range episodeCount, in the map's order: the entry
\* replaces the majority when it has more occurrences, or as many and
\* episode < majorityEpisode.
RangeEpisodeCount(episode) ==
  /\ mpc = "range"
  /\ episode \in pending
  /\ pending' = pending \ {episode}
  /\ IF \/ episodeCount[episode] > maxEpisodeCount
        \/ /\ episodeCount[episode] = maxEpisodeCount
           /\ StrLess(episode, majorityEpisode)
       THEN /\ majorityEpisode' = episode
            /\ maxEpisodeCount' = episodeCount[episode]
       ELSE UNCHANGED <<majorityEpisode, maxEpisodeCount>>
  /\ UNCHANGED <<episodes, matches, episodeStr, counted, episodeCount, mpc,
                 titleVars, dispatchVars, evalVars>>

\* for title, count := range titleCount, in the map's order, after the
\* range over episodeCount: the same rule for the title.
RangeTitleCount(title) ==
  /\ mpc = "range"
  /\ pending = {}
  /\ title \in pendingTitles
  /\ pendingTitles' = pendingTitles \ {title}
  /\ IF \/ titleCount[title] > maxTitleCount
        \/ /\ titleCount[title] = maxTitleCount
           /\ StrLess(title, majorityTitle)
       THEN /\ majorityTitle' = title
            /\ maxTitleCount' = titleCount[title]
       ELSE UNCHANGED <<majorityTitle, maxTitleCount>>
  /\ UNCHANGED <<episodes, matches, episodeStr, counted, episodeCount,
                 pending, majorityEpisode, maxEpisodeCount, mpc, titles,
                 titleCount, confidence, dispatchVars, evalVars>>

\* Both ranges are exhausted: confidence is maxEpisodeCount / totalCount,
\* kept as the fraction, and (majorityTitle, majorityEpisode, confidence)
\* is returned.
ReturnMajority ==
  /\ mpc = "range"
  /\ pending = {}
  /\ pendingTitles = {}
  /\ confidence' = [num |-> maxEpisodeCount, den |-> Len(matches)]
  /\ mpc' = "returned"
  /\ UNCHANGED <<episodes, matches, episodeStr, counted, episodeCount,
                 pending, majorityEpisode, maxEpisodeCount, titles,
                 titleCount, pendingTitles, majorityTitle, maxTitleCount,
                 dispatchVars, evalVars>>

NextEpisode ==
  \/ DecodeEpisode
  \/ StartMajority
  \/ CountEpisode
  \/ \E episode \in pending : RangeEpisodeCount(episode)
  \/ \E title \in pendingTitles : RangeTitleCount(title)
  \/ ReturnMajority

\* ------------------------- the capture time in a frame's name, and back
\* Capture times, in hundredths of a second (generateTimestamps renders
\* them with "%.2f"): some below 24 hours and some from 24 hours on.
Hours == {0, 1, 9, 10, 23, 24, 100}
CaptureTimes ==
  {h * 360000 + m * 6000 + s * 100 + cc :
     h \in Hours, m \in {0, 9, 59}, s \in {0, 10, 59}, cc \in {0, 50, 99}}

\* A frame of one video is about to be named.
InitTimestamp ==
  /\ DispatchIdle
  /\ EvalIdle
  /\ EpisodeIdle
  /\ FileNameIdle
  /\ RenameIdle
  /\ LoaderIdle
  /\ seconds \in CaptureTimes
  /\ outputFrame = <<>>
  /\ extracted = 0
  /\ tpc = "extract"

\* Faulty variant of Sprintf02d: the number is not padded ("%d").
SprintfD(n) == Sprintf0f(n)

\* fmt.Sprintf("%02d", n) for n >= 0: at least two digits.
Sprintf02d(n) == IF n < 10 THEN <<48>> \o Sprintf0f(n) ELSE Sprintf0f(n)

\* formatTimestamp: the duration d truncated to whole hours, minutes modulo
\* 60 and seconds modulo 60, each as %02d, joined by "-". d is counted here
\* in hundredths of a second: sec has two decimals, so its nanosecond count
\* is such a multiple.
formatTimestamp(d) ==
  Sprintf02d(d \div 360000) \o <<45>> \o Sprintf02d((d \div 6000) % 60)
    \o <<45>> \o Sprintf02d((d \div 100) % 60)

\* The texts "frame_0001", "_timestamp_" and ".jpg".
FramePrefix == <<102, 114, 97, 109, 101, 95, 48, 48, 48, 49>>
Marker == <<95, 116, 105, 109, 101, 115, 116, 97, 109, 112, 95>>
Jpg == <<46, 106, 112, 103>>

\* ExtractFrames: outputFrame is "frame_%04d_timestamp_%s.jpg" with the
\* formatted capture time, for the first frame of the video.
NameFrame ==
  /\ tpc = "extract"
  /\ outputFrame' = FramePrefix \o Marker \o formatTimestamp(seconds) \o Jpg
  /\ tpc' = "named"
  /\ UNCHANGED <<seconds, extracted, identifierVars, loaderVars, evalVars, episodeVars,
                 fileNameVars, renameVars>>

\* strings.Index(s, sep): the first position at which sep starts, 0 if none.
Index(s, sep) ==
  LET at == {i \in 1..(Len(s) - Len(sep) + 1) :
               SubSeq(s, i, i + Len(sep) - 1) = sep}
  IN IF at = {} THEN 0 ELSE CHOOSE i \in at : \A j \in at : i <= j

\* strings.Split(filename, "_timestamp_"): whether there are two parts or
\* more, and parts[1], the text between the first marker and the next one
\* (or the end).
HasMarker(filename) == Index(filename, Marker) # 0
SecondPart(filename) ==
  LET rest == SubSeq(filename, Index(filename, Marker) + Len(Marker),
                     Len(filename))
  IN IF Index(rest, Marker) = 0 THEN rest
     ELSE SubSeq(rest, 1, Index(rest, Marker) - 1)

\* strings.TrimSuffix(s, suffix).
TrimSuffix(s, suffix) ==
  IF Len(s) >= Len(suffix)
       /\ SubSeq(s, Len(s) - Len(suffix) + 1, Len(s)) = suffix
    THEN SubSeq(s, 1, Len(s) - Len(suffix))
    ELSE s

IsDigit(s, i) == i <= Len(s) /\ s[i] \in Digits

\* time.Parse("15-04-05", value): the hour is one or two digits and below
\* 24, the minute and the second are two digits each and below 60, "-"
\* stands between them and nothing follows. The result is the time of day,
\* or ok = FALSE for the error.
ParseTime(value) ==
  LET hl == IF IsDigit(value, 1) /\ IsDigit(value, 2) THEN 2 ELSE 1
      h == ParseFloat(SubSeq(value, 1, hl))
      m == ParseFloat(SubSeq(value, hl + 2, hl + 3))
      s == ParseFloat(SubSeq(value, hl + 5, hl + 6))
      ok == /\ IsDigit(value, 1)
            /\ Len(value) = hl + 6
            /\ value[hl + 1] = 45 /\ value[hl + 4] = 45
            /\ IsDigit(value, hl + 2) /\ IsDigit(value, hl + 3)
            /\ IsDigit(value, hl + 5) /\ IsDigit(value, hl + 6)
            /\ h < 24 /\ m < 60 /\ s < 60
  IN IF ok THEN [ok |-> TRUE, Hour |-> h, Minute |-> m, Second |-> s]
     ELSE [ok |-> FALSE, Hour |-> 0, Minute |-> 0, Second |-> 0]

\* extractTimestampInSeconds, for the base name of the frame: 0 when the
\* marker is missing or the time does not parse.
extractTimestampInSeconds(filename) ==
  IF ~HasMarker(filename) THEN 0
  ELSE LET parsedTime == ParseTime(TrimSuffix(SecondPart(filename), Jpg))
       IN IF ~parsedTime.ok THEN 0
          ELSE parsedTime.Hour * 3600 + parsedTime.Minute * 60
                 + parsedTime.Second

\* IdentifyEpisode: timestampSec := extractTimestampInSeconds(imagePath).
ExtractTimestamp ==
  /\ tpc = "named"
  /\ extracted' = extractTimestampInSeconds(outputFrame)
  /\ tpc' = "done"
  /\ UNCHANGED <<seconds, outputFrame, identifierVars, loaderVars, evalVars, episodeVars,
                 fileNameVars, renameVars>>

NextTimestamp ==
  \/ NameFrame
  \/ ExtractTimestamp

\* ------------------------------------------------- constructNewFileName
\* The bytes titles are made of here: " ", "!", "-", ".", "0", "Z", "a".
TitleChars == {32, 33, 45, 46, 48, 90, 97}
SeriesTitles == UNION {[1..n -> TitleChars] : n \in 0..MaxTitleLen}
\* Episode texts: "", "1", "A", "12", "123".
EpisodeInputs == {<<>>, <<49>>, <<65>>, <<49, 50>>, <<49, 50, 51>>}
\* Paths of videos, as filepath.Join leaves them: "d/v.m", "v.m", "/v.m",
\* "d.x/v", "d/v.a.m", "d/.m".
VideoPaths ==
  {<<100, 47, 118, 46, 109>>, <<118, 46, 109>>, <<47, 118, 46, 109>>,
   <<100, 46, 120, 47, 118>>, <<100, 47, 118, 46, 97, 46, 109>>,
   <<100, 47, 46, 109>>}

\* constructNewFileName is about to be called.
InitFileName ==
  /\ DispatchIdle
  /\ EvalIdle
  /\ EpisodeIdle
  /\ TimestampIdle
  /\ RenameIdle
  /\ LoaderIdle
  /\ originalPath \in VideoPaths
  /\ seriesTitle \in SeriesTitles
  /\ episodeText \in EpisodeInputs
  /\ newFileName = <<>>
  /\ fpc = "call"

\* Faulty variant of PadEpisode: the empty episode is padded as well.
PadEpisodeShort(episode) ==
  IF Len(episode) <= 1 THEN <<48>> \o episode ELSE episode

\* if len(episode) == 1 { episode = "0" + episode }.
PadEpisode(episode) ==
  IF Len(episode) = 1 THEN <<48>> \o episode ELSE episode

\* strings.ReplaceAll(s, old, new) for single bytes old and new.
ReplaceAll(s, old, new) ==
  [i \in 1..Len(s) |-> IF s[i] = old THEN new ELSE s[i]]

\* The bytes the expression [^a-zA-Z0-9.] does not match.
Kept(ch) == ch \in (97..122) \cup (65..90) \cup (48..57) \cup {46}

\* The last position of byte ch in s, 0 if none.
LastIndexByte(s, ch) ==
  LET at == {i \in 1..Len(s) : s[i] = ch}
  IN IF at = {} THEN 0 ELSE CHOOSE i \in at : \A j \in at : j <= i

\* filepath.Ext: the suffix that starts at the last "." of the last element
\* of the path, empty when that element has none.
Ext(path) ==
  IF LastIndexByte(path, 46) > LastIndexByte(path, 47)
    THEN SubSeq(path, LastIndexByte(path, 46), Len(path))
    ELSE <<>>

\* filepath.Dir of a clean path: all but the last element, "." when there
\* is no separator and "/" for an element of the root.
Dir(path) ==
  IF LastIndexByte(path, 47) = 0 THEN <<46>>
  ELSE IF LastIndexByte(path, 47) = 1 THEN <<47>>
  ELSE SubSeq(path, 1, LastIndexByte(path, 47) - 1)

\* filepath.Join(dir, name) for a clean dir and a name without separator:
\* "." is dropped and the root is not doubled.
Join(dir, name) ==
  IF dir = <<46>> THEN name
  ELSE IF dir = <<47>> THEN dir \o name
  ELSE dir \o <<47>> \o name

\* constructNewFileName.
constructNewFileName(path, title, episode) ==
  Join(Dir(path),
       SelectSeq(ReplaceAll(title, 32, 46), Kept) \o <<46, 69>>
         \o PadEpisode(episode) \o Ext(path))

\* newFileName := constructNewFileName(fullPath, majorityTitle,
\* majorityEpisode).
ConstructNewFileName ==
  /\ fpc = "call"
  /\ newFileName' = constructNewFileName(originalPath, seriesTitle,
                                         episodeText)
  /\ fpc' = "done"
  /\ UNCHANGED <<originalPath, seriesTitle, episodeText, identifierVars, loaderVars,
                 evalVars, episodeVars, timestampVars, renameVars>>

NextFileName == ConstructNewFileName

\* ------------------------------------------------------------ RenameFiles
MaxNewNames == 2
Videos == 1..MaxVideos
\* The file names of the input folder: video v is stored under the name v
\* before the call; the other names are free then.
Names == 1..(MaxVideos + MaxNewNames)
\* What a prompt reads, trimmed and lower-cased: "y", "n" or anything else.
Answers == {"y", "n", "other"}

\* RenameFiles is called: results holds the videos with at least one match
\* (AddResult), some of them with a verdict, some files still in the folder.
\* The name constructNewFileName builds from a verdict can be the name two
\* verdicts share, or the name a file already has.
InitRename ==
  /\ DispatchIdle
  /\ EvalIdle
  /\ EpisodeIdle
  /\ TimestampIdle
  /\ FileNameIdle
  /\ LoaderIdle
  /\ results \in SUBSET Videos
  /\ verdicts \in SUBSET results
  /\ onDisk \in SUBSET Videos
  /\ newName \in [verdicts -> Names]
  /\ folder = [n \in Names |-> IF n \in onDisk THEN n ELSE 0]
  /\ bulkPreview = {}
  /\ todo = {}
  /\ mkvFile = 0
  /\ renamed = {}
  /\ byBulk = {}
  /\ offered = {}
  /\ covered = {}
  /\ cancelled = FALSE
  /\ rpc = "askBulk"

\* os.Stat(fullPath) finds the file of video v.
Exists(v) == folder[v] # 0

\* os.Rename(oldName, newName) on the folder fs: it fails when oldName does
\* not exist, does nothing when both names are the same, and otherwise
\* moves the file, replacing whatever newName held.
Rename(fs, oldName, new) ==
  IF fs[oldName] = 0 \/ oldName = new
    THEN fs
    ELSE [fs EXCEPT ![new] = fs[oldName], ![oldName] = 0]

\* ConfirmBulkRename: "y" starts the bulk mode, "n" the individual loop,
\* anything else repeats the prompt.
ConfirmBulkRename(input) ==
  /\ rpc = "askBulk"
  /\ CASE input = "y" -> rpc' = "preview" /\ UNCHANGED todo
       [] input = "n" -> rpc' = "individual" /\ todo' = results
       [] OTHER -> UNCHANGED <<rpc, todo>>
  /\ UNCHANGED <<results, verdicts, onDisk, newName, folder, bulkPreview,
                 mkvFile, renamed, byBulk, offered, covered, cancelled,
                 identifierVars, loaderVars, evalVars, episodeVars,
                 timestampVars, fileNameVars>>

\* The preview loop: every video of results whose majority title and
\* episode are both non-empty gets its entry in bulkPreview.
BuildPreview ==
  /\ rpc = "preview"
  /\ bulkPreview' = results \cap verdicts
  /\ rpc' = "confirmBulk"
  /\ UNCHANGED <<results, verdicts, onDisk, newName, folder, todo, mkvFile,
                 renamed, byBulk, offered, covered, cancelled,
                 identifierVars, loaderVars, evalVars, episodeVars,
                 timestampVars, fileNameVars>>

\* Faulty variant of BulkConfirmed: only "n" cancels the bulk rename.
BulkConfirmedUnlessNo(input) == input # "n"

\* if input == "y" after the bulk preview.
BulkConfirmed(input) == input = "y"

\* The answer to the bulk preview: on "y" the range over bulkPreview
\* starts; on any other answer the individual loop starts.
AnswerBulk(input) ==
  /\ rpc = "confirmBulk"
  /\ covered' = IF input = "y" THEN covered \cup bulkPreview ELSE covered
  /\ IF BulkConfirmed(input)
       THEN /\ todo' = bulkPreview
            /\ rpc' = "bulkRename"
            /\ UNCHANGED cancelled
       ELSE /\ cancelled' = TRUE
            /\ todo' = results
            /\ rpc' = "individual"
  /\ UNCHANGED <<results, verdicts, onDisk, newName, folder, bulkPreview,
                 mkvFile, renamed, byBulk, offered, identifierVars,
                 loaderVars, evalVars, episodeVars, timestampVars,
                 fileNameVars>>

\* One round of "for oldName, newName := range bulkPreview": os.Rename, in
\* the order the map range gives; it fails for a file that is not there.
BulkRename(v) ==
  /\ rpc = "bulkRename"
  /\ v \in todo
  /\ todo' = todo \ {v}
  /\ folder' = Rename(folder, v, newName[v])
  /\ IF Exists(v)
       THEN /\ renamed' = renamed \cup {v}
            /\ byBulk' = byBulk \cup {v}
       ELSE UNCHANGED <<renamed, byBulk>>
  /\ UNCHANGED <<results, verdicts, onDisk, newName, bulkPreview, mkvFile,
                 offered, covered, cancelled, rpc, identifierVars,
                 loaderVars, evalVars, episodeVars, timestampVars,
                 fileNameVars>>

\* The range over bulkPreview is exhausted: RenameFiles returns.
BulkRenameReturns ==
  /\ rpc = "bulkRename"
  /\ todo = {}
  /\ rpc' = "done"
  /\ UNCHANGED <<results, verdicts, onDisk, newName, folder, bulkPreview,
                 todo, mkvFile, renamed, byBulk, offered, covered,
                 cancelled, identifierVars, loaderVars, evalVars,
                 episodeVars, timestampVars, fileNameVars>>

\* One round of "for mkvFile, matches := range fr.results" up to the prompt
\* of renameSingleFile: the function returns before it when the majority
\* title or episode is empty or when the file does not exist.
RenameSingleFile(v) ==
  /\ rpc = "individual"
  /\ v \in todo
  /\ todo' = todo \ {v}
  /\ IF v \in verdicts /\ Exists(v)
       THEN /\ mkvFile' = v
            /\ offered' = offered \cup {v}
            /\ rpc' = "confirm"
       ELSE UNCHANGED <<mkvFile, offered, rpc>>
  /\ UNCHANGED <<results, verdicts, onDisk, newName, folder, bulkPreview,
                 renamed, byBulk, covered, cancelled, identifierVars,
                 loaderVars, evalVars, episodeVars, timestampVars,
                 fileNameVars>>

\* confirmRename and what follows it: "y" renames the file, "n" skips it,
\* anything else repeats the prompt.
ConfirmRename(input) ==
  /\ rpc = "confirm"
  /\ CASE input = "y" ->
            /\ folder' = Rename(folder, mkvFile, newName[mkvFile])
            /\ renamed' = renamed \cup {mkvFile}
            /\ covered' = covered \cup {mkvFile}
            /\ mkvFile' = 0
            /\ rpc' = "individual"
       [] input = "n" ->
            /\ mkvFile' = 0
            /\ rpc' = "individual"
            /\ UNCHANGED <<folder, renamed, covered>>
       [] OTHER -> UNCHANGED <<folder, renamed, covered, mkvFile, rpc>>
  /\ UNCHANGED <<results, verdicts, onDisk, newName, bulkPreview, todo,
                 byBulk, offered, cancelled, identifierVars, loaderVars,
                 evalVars, episodeVars, timestampVars, fileNameVars>>

\* The range over fr.results is exhausted: RenameFiles returns.
RenameFilesReturns ==
  /\ rpc = "individual"
  /\ todo = {}
  /\ rpc' = "done"
  /\ UNCHANGED <<results, verdicts, onDisk, newName, folder, bulkPreview,
                 todo, mkvFile, renamed, byBulk, offered, covered,
                 cancelled, identifierVars, loaderVars, evalVars,
                 episodeVars, timestampVars, fileNameVars>>

NextRename ==
  \/ \E input \in Answers : ConfirmBulkRename(input)
  \/ BuildPreview
  \/ \E input \in Answers : AnswerBulk(input)
  \/ \E v \in Videos : BulkRename(v)
  \/ BulkRenameReturns
  \/ \E v \in Videos : RenameSingleFile(v)
  \/ \E input \in Answers : ConfirmRename(input)
  \/ RenameFilesReturns

\* ------------------------------------------------------------ ProxyLoader
MaxProxyLines == 2
MaxQuota == 2

\* What stands behind one line of the proxy file: a text url.Parse rejects,
\* a proxy whose request fails, one that answers with another status than
\* 200, one whose answer does not decode, or one that reports its quota.
Quotas == 0..MaxQuota
ProxyAnswers ==
  {[kind |-> k, Quota |-> 0, QuotaUsed |-> 0] :
     k \in {"invalid", "error", "status", "decode"}}
  \cup {[kind |-> "ok", Quota |-> q, QuotaUsed |-> u] :
          q \in Quotas, u \in Quotas}
ProxyFiles ==
  UNION {[1..n -> ProxyAnswers] : n \in 0..MaxProxyLines}

\* main has a proxy file path and is about to call LoadProxies.
InitLoader ==
  /\ DispatchIdle
  /\ EvalIdle
  /\ EpisodeIdle
  /\ TimestampIdle
  /\ FileNameIdle
  /\ RenameIdle
  /\ proxyFile \in ProxyFiles
  /\ unchecked = {}
  /\ proxyList = <<>>
  /\ valid = 0
  /\ proxies = <<>>
  /\ lpc = "open"

\* remainingQuota := result.Quota - result.QuotaUsed.
remainingQuota(answer) == answer.Quota - answer.QuotaUsed

\* checkProxy for the proxy of line i: (false, nil) when the request fails,
\* the status is not 200 or the answer does not decode; (false, details)
\* when the remaining quota is <= 0; (true, details) otherwise. details is
\* the empty sequence for nil.
checkProxy(i) ==
  LET answer == proxyFile[i]
      proxyDetails == [URL |-> i, Quota |-> answer.Quota,
                       QuotaUsed |-> answer.QuotaUsed]
  IN  IF answer.kind # "ok"
        THEN [isWorking |-> FALSE, details |-> <<>>]
        ELSE IF remainingQuota(answer) <= 0
               THEN [isWorking |-> FALSE, details |-> <<proxyDetails>>]
               ELSE [isWorking |-> TRUE, details |-> <<proxyDetails>>]

\* if isWorking || details != nil: the test that lets a checked proxy into
\* pl.proxyList.
Usable(checked) == checked.isWorking \/ checked.details # <<>>

\* os.Open and the scan loop of LoadProxies: the file cannot be opened and
\* LoadProxies returns the error (main logs it and proxies stays nil), or
\* one checkProxyConcurrently is started for every line.
OpenProxyFile ==
  /\ lpc = "open"
  /\ \/ /\ lpc' = "failed"
        /\ UNCHANGED unchecked
     \/ /\ unchecked' = DOMAIN proxyFile
        /\ lpc' = "collect"
  /\ UNCHANGED <<proxyFile, proxyList, valid, proxies, identifierVars,
                 evalVars, episodeVars, timestampVars, fileNameVars,
                 renameVars>>

\* checkProxyConcurrently for line i, in the order the scheduler picks: a
\* line url.Parse rejects is dropped; a checked proxy that passes the test
\* is appended to pl.proxyList under pl.mu and its URL is sent to results.
checkProxyConcurrently(i) ==
  /\ lpc = "collect"
  /\ i \in unchecked
  /\ unchecked' = unchecked \ {i}
  /\ IF proxyFile[i].kind # "invalid" /\ Usable(checkProxy(i))
       THEN /\ proxyList' = Append(proxyList, checkProxy(i).details[1])
            /\ valid' = valid + 1
       ELSE UNCHANGED <<proxyList, valid>>
  /\ UNCHANGED <<proxyFile, proxies, lpc, identifierVars, evalVars,
                 episodeVars, timestampVars, fileNameVars, renameVars>>

\* wg.Wait() and close(results): LoadProxies returns nil.
LoadProxiesReturns ==
  /\ lpc = "collect"
  /\ unchecked = {}
  /\ lpc' = "loaded"
  /\ UNCHANGED <<proxyFile, unchecked, proxyList, valid, proxies,
                 identifierVars, evalVars, episodeVars, timestampVars,
                 fileNameVars, renameVars>>

\* proxies = proxyLoader.GetProxyList(): the URL of every entry of
\* pl.proxyList; main then hands one ProxyDetails per URL to
\* NewEpisodeIdentifier, which builds one client, and so one path and one
\* worker, for each.
GetProxyList ==
  /\ lpc = "loaded"
  /\ proxies' = [k \in 1..Len(proxyList) |-> proxyList[k].URL]
  /\ lpc' = "done"
  /\ UNCHANGED <<proxyFile, unchecked, proxyList, valid, identifierVars,
                 evalVars, episodeVars, timestampVars, fileNameVars,
                 renameVars>>

NextLoader ==
  \/ OpenProxyFile
  \/ \E i \in 1..MaxProxyLines : checkProxyConcurrently(i)
  \/ LoadProxiesReturns
  \/ GetProxyList

\* ================================================================ claims
\* Indices of the Match Records of frame f.
RecordsOf(f) == {i \in 1..Len(Matches) : Matches[i].frame = f}
\* Every started worker has returned.
WorkersExited == \A c \in Clients : pc[c] \in {"idle", "exited"}

\* C1: with N >= 1 proxy workers and M > N frames, when IdentifyEpisodes has
\* returned every frame has had exactly one final evaluation (a call that
\* returned a verdict), except frames that failed on the last live proxy path.
C1_EachFrameEvaluatedOnce ==
  (dpc = "returned" /\ Direct \notin Paths /\ nFrames > Cardinality(Clients))
    => \A f \in Frames : evals[f] = 1 \/ f \in lastLiveFail

\* C2: Matches holds at most one Match Record per input frame, in every
\* reachable state, on proxy paths and on the direct path.
C2_OneRecordPerFrame == \A f \in Frames : Cardinality(RecordsOf(f)) <= 1

\* C3: two proxy paths, path 1 failing every call and path 2 accepting a
\* candidate for every frame: at completion Matches holds one record per
\* frame, all by path 2, path 1 is retired after 3 failures,
\* frameCounts[1] = 0 and frameCounts[2] = M.
C3_FailingAndWorkingRun ==
  (service = FailingAndWorking /\ nFrames >= RetireThreshold
     /\ dpc = "returned")
    => /\ Len(Matches) = nFrames
       /\ \A f \in Frames :
            \E i \in 1..Len(Matches) : Matches[i] = [frame |-> f, ProxyUsed |-> 2]
       /\ brokenProxies[1] /\ failCounts[1] = 3
       /\ frameCounts[1] = 0 /\ frameCounts[2] = nFrames

\* C4: a frame put back on the queue at a retirement made while another
\* path was not retired is attempted again by a surviving worker: when
\* IdentifyEpisodes has returned no such frame is still waiting for it.
C4_RequeuedFrameReattempted ==
  dpc = "returned" => \A f \in Frames : requeue[f] # "requeued"

\* C5: a proxy path is retired exactly when its fail counter has reached 3;
\* the counter moves only by +1, at the handling of a failed call, and is
\* never lowered; a worker leaves on the broken check only at 3 or more.
C5_RetiredAtThirdFailure ==
  /\ [](\A u \in Paths \ {Direct} : brokenProxies[u] <=> failCounts[u] >= 3)
  /\ [][\A u \in Paths :
          \/ failCounts'[u] = failCounts[u]
          \/ /\ failCounts'[u] = failCounts[u] + 1
             /\ \E c \in Clients :
                  proxyOf[c] = u /\ pc[c] = "fail" /\ err[c] # "nil"]_vars
  /\ [][\A c \in Clients :
          (pc[c] = "checkBrokenLocked" /\ pc'[c] = "exited")
            => failCounts[proxyOf[c]] >= 3]_vars

\* C5 witness: a path retired by its third failure after it had processed
\* a frame successfully.
C5_Witness ==
  \E u \in Paths \ {Direct} :
    brokenProxies[u] /\ failCounts[u] = 3 /\ frameCounts[u] > 0

\* C6: a retired path stays retired and no request is ever sent on it.
C6_NoRequestOnRetiredPath ==
  [][\A c \in Clients :
       /\ brokenProxies[proxyOf[c]] => brokenProxies'[proxyOf[c]]
       /\ (\E o \in Outcomes : SendRequest(c, o))
            => ~brokenProxies[proxyOf[c]]]_vars

\* C7: on the direct path a job whose calls fail is called once and retried
\* in place exactly 3 times, then dropped; nothing is ever sent back to the
\* queue in a direct-path run.
C7_DirectRetriesThenDrops ==
  [][\A c \in Clients :
       proxyOf[c] = Direct =>
         /\ (pc[c] = "ret" /\ err[c] # "nil" /\ calls[c] < 4)
              => (pc'[c] \in {"ret", "call"} /\ frame'[c] = frame[c])
         /\ (pc[c] = "ret" /\ err[c] # "nil" /\ calls[c] >= 4)
              => /\ calls[c] = 4
                 /\ pc'[c] \in {"ret", "select"}
                 /\ pc'[c] = "select" => frame'[c] = NoFrame
         /\ dpc # "load"
              => \/ frames' = frames
                 \/ frames # <<>> /\ frames' = Tail(frames)]_vars

\* C7 witness: the direct worker is back at the select after the fourth
\* failed call for a job, with frames still queued.
C7_Witness ==
  \E c \in Clients :
    /\ proxyOf[c] = Direct /\ pc[c] = "select" /\ frame[c] = NoFrame
    /\ calls[c] = 4 /\ err[c] # "nil" /\ frames # <<>>

\* C8: the direct path is never retired: its fail counter and broken flag
\* never change, its client stays registered, its worker never enters
\* handleProxyFailure and leaves only when the queue is empty.
C8_DirectNeverRetired ==
  Direct \in Paths =>
    /\ failCounts[Direct] = 0
    /\ ~brokenProxies[Direct]
    /\ httpClients = Clients
    /\ \A c \in Clients :
         /\ pc[c] \notin {"failLock", "fail", "safeSend", "send"}
         /\ pc[c] = "exited" => frames = <<>>

\* C8 witness: after a job dropped on a failed last retry, the direct
\* worker has received the next frame and passed the broken check.
C8_Witness ==
  \E c \in Clients :
    /\ proxyOf[c] = Direct /\ pc[c] = "call" /\ calls[c] = 0
    /\ err[c] # "nil" /\ frame[c] = 2

\* C9: the frame channel is closed at most once, only by the dispatcher once
\* every started worker has returned; it is closed when IdentifyEpisodes
\* returns, and nobody holds the send lock or can send afterwards.
C9_ClosedOnceAfterJoin ==
  /\ closeCount <= 1
  /\ framesClosed <=> closeCount = 1
  /\ framesClosed <=> dpc = "returned"
  /\ (framesClosed \/ channelClosed \/ done)
       => (WorkersExited /\ wg = 0 /\ sendMutex = Unlocked)

\* C9 witness: two workers have run and recorded matches, and the channel
\* has been closed.
C9_Witness ==
  /\ framesClosed /\ closeCount = 1
  /\ Cardinality(Clients) = 2
  /\ \A c \in Clients : pc[c] = "exited"
  /\ \E i, j \in 1..Len(Matches) : Matches[i].ProxyUsed # Matches[j].ProxyUsed

\* C10: IdentifyEpisodes returns only after every worker has returned, and
\* then the queue is drained.
C10_ReturnsWithQueueDrained ==
  dpc = "returned" => (WorkersExited /\ frames = <<>>)

\* C11: with every recognition call returning and fair scheduling,
\* IdentifyEpisodes, once started, eventually returns, for every number of
\* frames, every set of paths and every pattern of per-job failures.
C11_EventuallyReturns == (dpc = "load") ~> (dpc = "returned")

\* A worker on a proxy path holds a job that is about to be pushed back onto
\* the queue: its failure is being handled and reaches the threshold, or
\* SafeSend is under way with room in the buffer.
PendingRequeue(d) ==
  /\ IsProxyPath(d)
  /\ frame[d] # NoFrame
  /\ \/ /\ pc[d] \in {"failLock", "fail"}
        /\ Retires(failCounts[proxyOf[d]] + 1)
     \/ pc[d] \in {"safeSend", "send"}
  /\ ~channelClosed /\ Len(frames) < nFrames

\* C12: when a worker whose path is not retired exits on the periodic
\* queue-length check, no other worker holds an in-flight job that can
\* still be pushed back onto the queue.
C12_LiveWorkerExitsOnlyWhenNoWorkRemains ==
  [][\A c \in Clients :
       (SelectExit(c) /\ ~brokenProxies[proxyOf[c]])
         => ~\E d \in Clients \ {c} : PendingRequeue(d)]_vars

\* Candidate i has been examined by the loop.
Examined(i) == i < idx \/ (i = idx /\ epc = "returned" /\ matchInfo # <<>>)
\* Candidate i is the one the evaluation accepted.
AcceptedAt(i) == i = idx /\ epc = "returned" /\ matchInfo # <<>>
\* Candidate i passes the title filter.
PassesTitle(i) == aniListID = 0 \/ result[i].id = aniListID
\* The frame's timestamp lies in one of the three tested intervals of
\* candidate i: [from,to], [from-th,from), (to,to+th].
InTestedIntervals(i) ==
  \/ timestampSec \in result[i].from..result[i].to
  \/ timestampSec \in (result[i].from - threshold)..(result[i].from - 1)
  \/ timestampSec \in (result[i].to + 1)..(result[i].to + threshold)
\* from-th <= t <= to+th for candidate i.
InWidenedRange(i) ==
  /\ result[i].from - threshold <= timestampSec
  /\ timestampSec <= result[i].to + threshold

\* C13: for every timestamp t, range [from,to] and threshold th, a candidate
\* that passes the title filter is accepted if and only if
\* from-th <= t <= to+th.
C13_AcceptedIffInWidenedRange ==
  \A i \in 1..Len(result) :
    (Examined(i) /\ PassesTitle(i)) => (AcceptedAt(i) <=> InWidenedRange(i))

\* C13, amended: a candidate that passes the title filter is accepted if and
\* only if t lies in [from,to], [from-th,from) or (to,to+th]; that is
\* from-th <= t <= to+th when th >= 0 and from <= to.
C13_AcceptedIffInTestedIntervals ==
  \A i \in 1..Len(result) :
    (Examined(i) /\ PassesTitle(i)) =>
      /\ AcceptedAt(i) <=> InTestedIntervals(i)
      /\ (threshold >= 0 /\ result[i].from <= result[i].to)
           => (AcceptedAt(i) <=> InWidenedRange(i))

\* C13 witness: with a positive threshold the second candidate is accepted
\* on the last second after its range, after a first candidate that passed
\* the title filter was rejected one second before the widened range.
C13_Witness ==
  /\ epc = "returned" /\ matchInfo # <<>> /\ idx = 2 /\ threshold > 0
  /\ result[2].from <= result[2].to
  /\ timestampSec = result[2].to + threshold
  /\ PassesTitle(1) /\ result[1].from <= result[1].to
  /\ timestampSec = result[1].from - threshold - 1

\* C14: the Match Record of a frame is built from the first candidate in
\* response order that passes the title filter and the timestamp test;
\* later candidates are never considered, whatever their similarity, and
\* nothing is recorded when no candidate passes.
C14_FirstFit ==
  LET fit == {i \in 1..Len(result) : PassesTitle(i) /\ InTestedIntervals(i)}
  IN /\ Len(matchInfo) <= 1
     /\ Len(reasons) = idx - 1
     /\ epc = "returned" =>
          IF fit = {}
            THEN matchInfo = <<>> /\ idx = Len(result) + 1
            ELSE /\ \A i \in fit : idx <= i
                 /\ idx \in fit
                 /\ matchInfo =
                      <<[AnilistID |-> result[idx].id,
                         Similarity |-> result[idx].similarity * 100,
                         Timestamp |-> timestampSec,
                         From |-> result[idx].from, To |-> result[idx].to]>>

\* C14 witness: the first candidate was accepted although the second one
\* passes both tests too and has a higher similarity.
C14_Witness ==
  /\ epc = "returned" /\ matchInfo # <<>> /\ idx = 1 /\ Len(result) = 2
  /\ PassesTitle(2) /\ InTestedIntervals(2)
  /\ result[2].similarity > result[1].similarity

\* C15: with a non-zero title filter a candidate with another title id is
\* never accepted, whatever its time range, and the next candidate is
\* evaluated; with filter 0 no candidate is rejected on title grounds.
C15_TitleFilter ==
  /\ \A i \in 1..(idx - 1) :
       reasons[i] = "title" <=> (aniListID # 0 /\ result[i].id # aniListID)
  /\ \A i \in 1..Len(result) :
       AcceptedAt(i) => (aniListID = 0 \/ result[i].id = aniListID)
  /\ (epc = "returned" /\ matchInfo = <<>>) => idx = Len(result) + 1

\* C15 witness: the first candidate covers the timestamp but is of another
\* title and was rejected; the second one, of the filtered title, was
\* evaluated and accepted.
C15_Witness ==
  /\ aniListID # 0 /\ epc = "returned" /\ matchInfo # <<>> /\ idx = 2
  /\ reasons = <<"title">>
  /\ timestampSec \in result[1].from..result[1].to

\* The text t has a numeric interpretation: a non-empty run of digits.
NumericText(t) == t # <<>> /\ \A i \in DOMAIN t : t[i] \in Digits
\* The number a run of digits denotes, digit by digit with its weight.
RECURSIVE Pow10(_)
Pow10(k) == IF k = 0 THEN 1 ELSE 10 * Pow10(k - 1)
RECURSIVE DigitsValueFrom(_, _)
DigitsValueFrom(t, i) ==
  IF i > Len(t) THEN 0
  ELSE (t[i] - 48) * Pow10(Len(t) - i) + DigitsValueFrom(t, i + 1)
DigitsValue(t) == DigitsValueFrom(t, 1)
\* t is the decimal text of n: digits, no leading zero, of value n.
IsDecimalOf(t, n) ==
  NumericText(t) /\ (Len(t) > 1 => t[1] # 48) /\ DigitsValue(t) = n

\* C16: decoding the JSON number n, or a JSON string holding n, and
\* rendering with String() yields the decimal text of n; decoding a string
\* with no numeric interpretation and rendering yields it verbatim.
C16_EpisodeRoundTrip ==
  matches # <<>> =>
    LET data == episodes[Len(matches)]
    IN /\ data.kind = "number" => IsDecimalOf(episodeStr, data.num)
       /\ (data.kind = "string" /\ NumericText(data.str))
            => IsDecimalOf(episodeStr, DigitsValue(data.str))
       /\ (data.kind = "string" /\ ~NumericText(data.str))
            => episodeStr = data.str

\* C16 witness: the string "01" was decoded to Raw "1", then the string
\* "9A" was decoded and rendered.
C16_Witness ==
  /\ Len(matches) = 2
  /\ episodes[1] = [kind |-> "string", num |-> 0, str |-> <<48, 49>>]
  /\ matches[1].Raw = <<49>>
  /\ episodes[2] = [kind |-> "string", num |-> 0, str |-> <<57, 65>>]
  /\ episodeStr = <<57, 65>>

\* C17: between equally frequent episodes the majority verdict orders two
\* identifiers that both have a numeric interpretation by numeric value (9
\* before 10), and two identifiers without one as text.
C17_NumericTieBreak ==
  mpc = "returned" =>
    \A k \in DOMAIN episodeCount :
      episodeCount[k] = maxEpisodeCount =>
        /\ (NumericText(k) /\ NumericText(majorityEpisode))
             => DigitsValue(majorityEpisode) <= DigitsValue(k)
        /\ (~NumericText(k) /\ ~NumericText(majorityEpisode))
             => ~StrLess(k, majorityEpisode)

\* C18: a frame that cannot be read locally is dropped with no retry: its
\* error never reaches handleProxyFailure (no fail counter increment, no
\* requeue) and never starts or continues the direct path's retry loop.
C18_IOErrorDropsJob ==
  \A c \in Clients :
    err[c] = "io" =>
      /\ pc[c] \notin {"failLock", "fail", "safeSend", "send"}
      /\ retry[c] = 0

\* C19: a call that returns no error and no accepted candidate consumes the
\* job: the worker goes back to the select without the frame, and nothing
\* is appended, counted as a failure or requeued.
C19_NoMatchConsumesJob ==
  [][\A c \in Clients :
       (/\ pc[c] = "ret" /\ err[c] = "nil" /\ similarity[c] = 0
        /\ RecordsOf(frame[c]) = {}
        /\ pc'[c] # pc[c])
         => /\ pc'[c] = "select" /\ frame'[c] = NoFrame
            /\ frames' = frames
            /\ failCounts' = failCounts
            /\ Matches' = Matches]_vars

\* C20: when the frame supplier or the proxy supplier fails before dispatch
\* starts, the run aborts and IdentifyEpisodes is never started.
C20_SupplierFailureAborts ==
  [][(mainErr # "nil" /\ dpc' # dpc) => dpc' = "aborted"]_vars

\* C20, amended: a failure of the frame supplier aborts the run before
\* IdentifyEpisodes is started; a failure of the proxy supplier is logged
\* and the run goes on to IdentifyEpisodes on the direct path.
C20_ExtractFailureAbortsLoadFailureGoesDirect ==
  /\ [][/\ (mainErr = "extract" /\ dpc' # dpc) => dpc' = "aborted"
        /\ (mainErr = "load" /\ dpc' # dpc)
             => (dpc' = "load" /\ proxyOf = (1 :> Direct))
        /\ dpc = "aborted" => dpc' = "aborted"]_vars
  /\ [](dpc = "aborted" =>
          /\ mainErr = "extract"
          /\ frames = <<>> /\ Matches = <<>>
          /\ \A c \in Clients : pc[c] = "idle")

\* C20 witness: the proxy loader has failed after a successful extraction.
C20_Witness == dpc = "loaded" /\ mainErr = "load" /\ nFrames > 0

\* The launch loop of IdentifyEpisodes is over.
Dispatched ==
  dpc \in {"wait", "closeDone", "closeFrames", "returned"}
\* The workers that were started.
Started == {c \in Clients : pc[c] # "idle"}

\* C21: IdentifyEpisodes starts exactly one worker per registered path, one
\* for each supplied proxy or the single direct worker of an empty list: when
\* the launch loop is over every client has its worker, no two workers stand
\* on the same path, and after that no worker is started.
C21_OneWorkerPerPath ==
  /\ [](Dispatched => Started = Clients)
  /\ [](\A c \in Started : \A d \in Started \ {c} : proxyOf[c] # proxyOf[d])
  /\ [](Direct \in Paths => Cardinality(Clients) = 1)
  /\ [][Dispatched => (Started' = Started /\ proxyOf' = proxyOf)]_vars

\* The number of locks worker c holds: mu, sendMutex and its client's lock.
Held(c) ==
  (IF mu = c THEN 1 ELSE 0) + (IF sendMutex = c THEN 1 ELSE 0)
    + (IF clientLocks[c] THEN 1 ELSE 0)

\* C22: no lock (mu, the send lock or a per-client lock) is held by a worker
\* while its recognition request is in flight.
C22_NoLockDuringRequest ==
  \A c \in Clients : pc[c] = "request" => Held(c) = 0

\* C22, amended: while its recognition request is in flight a worker holds
\* the lock of its own client, taken around the whole call, and neither mu
\* nor the send lock.
C22_OnlyClientLockDuringRequest ==
  \A c \in Clients :
    pc[c] = "request" => (clientLocks[c] /\ mu # c /\ sendMutex # c)

\* C22 witness: two requests in flight at once, each worker holding only its
\* client's lock, while the queue still holds a frame.
C22_Witness ==
  /\ \A c \in Clients : pc[c] = "request" /\ Held(c) = 1
  /\ Cardinality(Clients) = 2
  /\ frames # <<>>

\* C23: no goroutine ever holds two locks at the same time.
C23_AtMostOneLock == \A c \in Clients : Held(c) <= 1

\* C23, amended: a worker holds at most two locks at a time, and only in
\* two nestings: mu inside its client's lock (IdentifyEpisode's broken check
\* and append) and the send lock inside mu (SafeSend called by
\* handleProxyFailure); mu is never taken by a holder of the send lock, so
\* the order client lock, mu, send lock is never reversed.
C23_AtMostTwoLocksNested ==
  /\ [](\A c \in Clients :
          /\ Held(c) <= 2
          /\ sendMutex = c => (mu = c /\ ~clientLocks[c])
          /\ (mu = c /\ clientLocks[c])
               => pc[c] \in {"retiredCheck", "append"})
  /\ [][\A c \in Clients :
          /\ (mu # c /\ mu' = c) => sendMutex # c
          /\ (~clientLocks[c] /\ clientLocks'[c])
               => (mu # c /\ sendMutex # c)]_vars

\* C23 witness: a worker that has just retired its path holds mu and the
\* send lock, its client's lock released before.
C23_Witness ==
  \E c \in Clients :
    /\ pc[c] = "send" /\ mu = c /\ sendMutex = c /\ ~clientLocks[c]
    /\ failCounts[proxyOf[c]] = RetireThreshold

\* C24: for each path at most one recognition request is in flight at any
\* time.
C24_OneRequestPerPath ==
  \A c \in Clients : \A d \in Clients \ {c} :
    (pc[c] = "request" /\ pc[d] = "request") => proxyOf[c] # proxyOf[d]

\* C29: every frame a worker receives from the queue is either submitted to
\* the recognizer by that worker (IdentifyEpisode is called for it at least
\* once) or put back on the queue; a worker that finds its own path retired
\* right after a receive does not discard the frame.
C29_ReceivedFrameSubmittedOrRequeued ==
  [][\A c \in Clients :
       (frame[c] # NoFrame /\ frame'[c] = NoFrame)
         => \/ calls[c] >= 1
            \/ frames' = Append(frames, frame[c])]_vars

\* Frame f is in the queue or in the hands of a worker.
InPlay(f) ==
  \/ \E i \in 1..Len(frames) : frames[i] = f
  \/ \E c \in Clients : frame[c] = f

\* C30: when a call fails on a proxy path and the path's fail count after
\* the increment is 1 or 2, the failed frame is not put back on the queue
\* and is never attempted again on any path; only the failure that brings
\* the count to 3 puts its frame back.
C30_OnlyThirdFailureRequeues ==
  /\ [][\A c \in Clients : \A f \in Frames :
          (pc[c] = "fail" /\ pc'[c] # "fail" /\ frame[c] = f
             /\ failCounts'[proxyOf[c]] \in {1, 2})
            => /\ frames' = frames
               /\ frame'[c] = NoFrame
               /\ ~InPlay(f)']_vars
  /\ [][\A f \in Frames :
          (dpc # "load" /\ ~InPlay(f)) => ~InPlay(f)']_vars
  /\ [][\A c \in Clients :
          (pc[c] = "send" /\ frames' = Append(frames, frame[c]))
            => failCounts[proxyOf[c]] = 3]_vars

\* Occurrences of text k among the episode texts / the titles of the
\* matches: numbers that no reordering of the matches changes.
EpisodeOccurrences(k) ==
  Cardinality({i \in 1..Len(matches) : String(matches[i]) = k})
TitleOccurrences(k) ==
  Cardinality({i \in 1..Len(titles) : TitleOf(titles[i]) = k})
EpisodeTexts == {String(matches[i]) : i \in 1..Len(matches)}
TitleTexts == {TitleOf(titles[i]) : i \in 1..Len(titles)}

\* C25: the majority verdict is a function of the multiset of the Match
\* Records, whatever the order of the records and of the map iterations:
\* the episode is the most frequent episode text, the first in text order
\* among equally frequent ones, likewise the title, and the confidence is
\* the share of that episode among the records.
C25_VerdictOfMultiset ==
  mpc = "returned" =>
    /\ majorityEpisode \in EpisodeTexts
    /\ \A k \in EpisodeTexts \ {majorityEpisode} :
         \/ EpisodeOccurrences(k) < EpisodeOccurrences(majorityEpisode)
         \/ /\ EpisodeOccurrences(k) = EpisodeOccurrences(majorityEpisode)
            /\ StrLess(majorityEpisode, k)
    /\ majorityTitle \in TitleTexts
    /\ \A k \in TitleTexts \ {majorityTitle} :
         \/ TitleOccurrences(k) < TitleOccurrences(majorityTitle)
         \/ /\ TitleOccurrences(k) = TitleOccurrences(majorityTitle)
            /\ StrLess(majorityTitle, k)
    /\ confidence = [num |-> EpisodeOccurrences(majorityEpisode),
                     den |-> Len(matches)]

\* C25 witness: a verdict over three records of which the last two share
\* their episode, returned with confidence 2/3, and whose three titles tie:
\* the first title in text order is returned.
C25_Witness ==
  /\ mpc = "returned"
  /\ Len(matches) = 3
  /\ String(matches[1]) # String(matches[2])
  /\ String(matches[2]) = String(matches[3])
  /\ majorityEpisode = String(matches[3])
  /\ confidence = [num |-> 2, den |-> 3]
  /\ Cardinality(TitleTexts) = 3
  /\ majorityTitle = <<65>>

\* C26: timestamp round trip: for every capture time s with 0 <= s < 86400,
\* extractTimestampInSeconds applied to the frame name the extractor builds
\* for s returns the whole number of seconds of s.
C26_TimestampRoundTrip ==
  (tpc = "done" /\ seconds < 8640000) => extracted = seconds \div 100

\* C26 witness: the capture time 23:59:59.99 has been named and read back as
\* 86399 seconds.
C26_Witness ==
  /\ tpc = "done"
  /\ seconds = 8639999
  /\ outputFrame = FramePrefix \o Marker
                     \o <<50, 51, 45, 53, 57, 45, 53, 57>> \o Jpg
  /\ extracted = 86399

\* The title with every space turned into a dot and every byte that is not
\* a letter, a digit or a dot left out, byte by byte.
RECURSIVE DottedTitle(_)
DottedTitle(t) ==
  IF t = <<>> THEN <<>>
  ELSE (IF t[1] = 32 THEN <<46>>
        ELSE IF \/ t[1] \in 48..57
                \/ t[1] \in 65..90
                \/ t[1] \in 97..122
                \/ t[1] = 46
          THEN <<t[1]>>
        ELSE <<>>) \o DottedTitle(Tail(t))

\* C27: constructNewFileName(path, title, episode) returns, in the directory
\* of path, the name T.E<ep><ext>: T is the title with spaces replaced by
\* dots and every character outside [A-Za-z0-9.] removed, <ep> is the
\* episode padded with "0" when it has exactly one character, and <ext> is
\* the extension of path.
C27_NewFileName ==
  fpc = "done" =>
    \E cut \in 0..Len(originalPath) : \E dot \in 1..(Len(originalPath) + 1) :
      \* originalPath is directory (up to cut), stem, extension (from dot)
      /\ cut = 0 \/ originalPath[cut] = 47
      /\ \A i \in (cut + 1)..Len(originalPath) : originalPath[i] # 47
      /\ dot > cut
      /\ dot <= Len(originalPath) => originalPath[dot] = 46
      /\ \A i \in (dot + 1)..Len(originalPath) : originalPath[i] # 46
      /\ dot = Len(originalPath) + 1
           => \A i \in (cut + 1)..Len(originalPath) : originalPath[i] # 46
      /\ newFileName =
           SubSeq(originalPath, 1, cut) \o DottedTitle(seriesTitle)
             \o <<46, 69>>
             \o (IF Len(episodeText) = 1 THEN <<48>> ELSE <<>>)
             \o episodeText
             \o SubSeq(originalPath, dot, Len(originalPath))

\* C27 witness: "a !" with episode "1" for "d/v.a.m" has given "d/a..E01.m".
C27_Witness ==
  /\ fpc = "done"
  /\ originalPath = <<100, 47, 118, 46, 97, 46, 109>>
  /\ seriesTitle = <<97, 32>>
  /\ episodeText = <<49>>
  /\ newFileName = <<100, 47, 97, 46, 46, 69, 48, 49, 46, 109>>

\* C28: no video file is renamed without a 'y' answer that covers it; when
\* the bulk preview is cancelled no file has been renamed by the bulk step
\* and every video with results is then offered for individual confirmation.
C28_NoRenameWithoutYes ==
  /\ renamed \subseteq covered
  /\ cancelled => byBulk = {}
  /\ (cancelled /\ rpc = "done") => results \subseteq offered

\* C28, amended: no video file is renamed without a 'y' answer that covers
\* it; when the bulk preview is cancelled no file has been renamed by the
\* bulk step, and the individual loop then goes through every video with
\* results and offers for confirmation exactly those whose majority title
\* and episode are both non-empty and whose file exists when their turn
\* comes; the others are reported and passed over.
C28_NoRenameWithoutYesOfferedWhenNameable ==
  /\ [](renamed \subseteq covered)
  /\ [](cancelled => byBulk = {})
  /\ [](offered \subseteq results)
  /\ [][(~cancelled /\ cancelled') => todo' = results]_vars
  /\ []((cancelled /\ rpc = "done") => todo = {})
  /\ [][\A v \in Videos :
          (rpc = "individual" /\ v \in todo /\ v \notin todo')
            => (v \in offered' <=> (v \in verdicts /\ Exists(v)))]_vars

\* C28 witness: the bulk preview was cancelled; of two videos with results
\* the one with a verdict was offered and renamed on 'y', the one without
\* was not offered.
C28_Witness ==
  /\ rpc = "done"
  /\ cancelled
  /\ results = {1, 2}
  /\ verdicts = {1}
  /\ offered = {1}
  /\ renamed = {1}
  /\ byBulk = {}

\* The workers that hold a frame.
Holding == {c \in Clients : frame[c] # NoFrame}

\* C31: the frames in the queue and the frames held by workers are together
\* never more than the capacity of the queue, the initial frame count; so
\* the send of SafeSend, made before the retiring worker exits and before
\* done is closed, always finds room and puts the frame back, never taking
\* the default or the done branch.
C31_RequeueAlwaysFindsRoom ==
  /\ [](Len(frames) + Cardinality(Holding) <= nFrames)
  /\ [](\A c \in Clients :
          pc[c] = "send"
            => (~channelClosed /\ ~done /\ Len(frames) < nFrames))
  /\ [][\A c \in Clients :
          (pc[c] = "send" /\ pc'[c] # "send")
            => frames' = Append(frames, frame[c])]_vars

\* C31 witness: the third of three frames has failed at the retirement of
\* its path and is back in the queue.
C31_Witness ==
  /\ nFrames = 3
  /\ frames = <<3>>
  /\ Holding = {}
  /\ \E u \in Paths : failCounts[u] = RetireThreshold

\* C32: done is closed once, and only after the join has returned, when
\* every worker has exited; so no worker leaves its loop by the done case
\* or by the closed queue: every exit is by the ticker's empty-queue test
\* or by the broken check.
C32_ExitsOnlyByTickerOrBrokenCheck ==
  /\ [][done' # done => (~done /\ dpc = "closeDone" /\ wg = 0)]_vars
  /\ []((done \/ framesClosed) => WorkersExited)
  /\ [][\A c \in Clients :
          (pc[c] # "exited" /\ pc'[c] = "exited")
            => /\ ~done /\ ~framesClosed
               /\ \/ pc[c] = "select" /\ Len(frames) = 0
                  \/ /\ pc[c] = "checkBrokenLocked"
                     /\ brokenProxies[proxyOf[c]]]_vars

\* C32 witness: done is closed after both workers of a run have exited, one
\* of them on a path that was retired.
C32_Witness ==
  /\ done
  /\ Cardinality(Clients) = 2
  /\ \A c \in Clients : pc[c] = "exited"
  /\ \E u \in Paths : brokenProxies[u]

\* C33: when IdentifyEpisodes returns, the processed counter of every path
\* equals the number of Match Records that name the path in ProxyUsed.
C33_CountsEqualRecords ==
  dpc = "returned" =>
    \A u \in Paths :
      frameCounts[u]
        = Cardinality({i \in 1..Len(Matches) : Matches[i].ProxyUsed = u})

\* No two clients share a proxy URL.
DistinctURLs == \A c \in Clients : \A d \in Clients \ {c} : proxyOf[c] # proxyOf[d]

\* C34: with pairwise distinct proxy URLs, whenever mu is free every fail
\* counter is in 0..3, and a proxy path is marked broken exactly when its
\* counter is 3, exactly when its client is gone from httpClients.
C34_BrokenIffThreeIffRemoved ==
  (DistinctURLs /\ mu = Unlocked) =>
    \A c \in Clients :
      /\ failCounts[proxyOf[c]] \in 0..3
      /\ proxyOf[c] # Direct =>
           /\ brokenProxies[proxyOf[c]] <=> failCounts[proxyOf[c]] = 3
           /\ brokenProxies[proxyOf[c]] <=> c \notin httpClients

\* C34 witness: of two distinct proxy paths the first is retired at three
\* failures and its client removed, the second is still registered.
C34_Witness ==
  /\ DistinctURLs /\ mu = Unlocked
  /\ Cardinality(Clients) = 2
  /\ brokenProxies[proxyOf[1]] /\ failCounts[proxyOf[1]] = 3
  /\ httpClients = {2}
  /\ ~brokenProxies[proxyOf[2]]

\* Worker c is running: started and not returned.
Live(c) == pc[c] \notin {"idle", "exited"}
\* Worker c is at a Lock() of a mutex another goroutine holds.
Blocked(c) ==
  \/ /\ pc[c] \in {"checkBroken", "call", "appendLock", "countLock",
                   "failLock"}
     /\ mu \notin {Unlocked, c}
  \/ pc[c] = "safeSend" /\ sendMutex \notin {Unlocked, c}
\* The dispatcher is at wg.Wait() with workers counted, or at the Lock() of
\* a send lock that is held.
DispatcherBlocked ==
  \/ dpc = "wait" /\ wg > 0
  \/ dpc = "closeFrames" /\ sendMutex # Unlocked

\* C35: a dispatch run has no deadlock: in no reachable state are all
\* goroutines blocked; as long as the run has not ended some goroutine can
\* take a step, and the dispatcher comes to the send lock only after every
\* worker has exited.
C35_DeadlockFree ==
  /\ Alive =>
       ~(DispatcherBlocked /\ \A c \in Clients : Live(c) => Blocked(c))
  /\ dpc \notin {"returned", "aborted", "fatal"} => ENABLED <<Next>>_vars
  /\ dpc = "closeFrames" => (WorkersExited /\ sendMutex = Unlocked)

\* C35 witness: the dispatcher waits for the join and a worker waits for mu
\* while the other worker holds it.
C35_Witness ==
  /\ dpc = "wait" /\ wg = 2
  /\ \E c \in Clients : \E d \in Clients \ {c} : Blocked(c) /\ mu = d

\* C38: the range of IdentifyEpisodes over httpClients is never concurrent
\* with the delete of handleProxyFailure: no step removes a client from
\* httpClients while the launch loop still has entries to visit, and the
\* runtime never stops the process for a concurrent map iteration and write.
C38_LaunchLoopNeverConcurrentWithDelete ==
  /\ [][httpClients' # httpClients
          => ~(dpc = "launch" /\ unvisited # {})]_vars
  /\ [](dpc # "fatal")

\* C37: a proxy whose remaining quota (quota minus quotaUsed) is <= 0 when
\* it is checked is not in the list GetProxyList returns, so main builds no
\* client, path or worker for it.
C37_ExhaustedProxyNotUsed ==
  lpc = "done"
    => \A k \in 1..Len(proxies) : remainingQuota(proxyFile[proxies[k]]) > 0

\* The names under which the file of video v is stored.
StoredUnder(v) == {n \in Names : folder[n] = v}

\* C36: RenameFiles renames no video onto the target of another video or
\* onto a name that exists: when it has returned, every video file that
\* existed before the call is still stored under exactly one name.
C36_EveryVideoSurvivesRenaming ==
  rpc = "done" => \A v \in onDisk : Cardinality(StoredUnder(v)) = 1

\* The run as the program makes it.
Spec == Init /\ [][Next]_vars
\* The same run with the history of every frame recorded.
SpecAudit == InitAudit /\ [][Next]_vars
\* The run under the scheduler's fairness.
SpecFair == Init /\ [][Next]_vars /\ Fairness
\* The evaluation of one decoded response.
SpecEvaluate == InitEvaluate /\ [][NextEvaluate]_vars
\* The episodes of one video, decoded and put to the majority verdict.
SpecEpisode == InitEpisode /\ [][NextEpisode]_vars
\* One frame named by the extractor and its name read back.
SpecTimestamp == InitTimestamp /\ [][NextTimestamp]_vars
\* One call of constructNewFileName.
SpecFileName == InitFileName /\ [][NextFileName]_vars
\* One call of RenameFiles with the answers of the user.
SpecRename == InitRename /\ [][NextRename]_vars
\* One proxy file loaded by main.
SpecLoader == InitLoader /\ [][NextLoader]_vars
====
